-------------------------- MODULE EditorOutboxProofs --------------------------
(***************************************************************************)
(* Theorems about EditorOutbox, for any number of documents, fields,       *)
(* entered values and save attempts.                                       *)
(***************************************************************************)
EXTENDS EditorOutbox, FiniteSetTheorems, WellFoundedInduction, TLAPS

-----------------------------------------------------------------------------
(* The inductive invariant *)

Edits == [path : Paths, base : Nat, value : Nat]
AttemptRows == [key : Nat, base : Nat, edits : SUBSET Edits]
RecordRows == [base : Nat, edits : SUBSET Edits, attempt : AttemptRows]
Listings == [scope : Tabs, record : RecordRows]
TabRows == [phase : {"unopened", "loading", "reading", "ready", "closed"},
            persisted : Nat, working : [Paths -> Nat],
            status : {"saved", "dirty", "saving", "conflict"},
            attempt : AttemptRows, listed : SUBSET Listings,
            pending : SUBSET Edits, conflicts : SUBSET Edits]

RowTypes ==
    /\ history \in Seq([Paths -> Nat]) /\ Len(history) >= 1
    /\ receipts \in [1..MaxAttempts -> Nat] /\ requests \subseteq AttemptRows \ {NoAttempt}
    /\ outbox \in [Tabs -> RecordRows] /\ tab \in [Tabs -> TabRows]
    /\ made \in 0..MaxEdits /\ keys \in 0..MaxAttempts
    /\ seen \in [1..MaxEdits -> SUBSET Nat]

InHistory(fact) == \E r \in 1..Head1 : history[r][fact[1]] = fact[2]

\* Values are those that were entered; receipts are those of keys that were made.
ServerOK ==
    /\ history[1] = Original
    /\ \A r \in 1..Head1 : \A p \in Paths : history[r][p] <= made
    /\ \A k \in 1..MaxAttempts : /\ receipts[k] <= Head1
                                 /\ receipts[k] # 0 => k <= keys

\* One edit for a field, by an owner who saw the value it departs from.
OnePerPath(edits) == \A e, f \in edits : e.path = f.path => e = f
EditsOK(edits) ==
    /\ OnePerPath(edits)
    /\ \A e \in edits : e.value \in 1..made /\ e.base \in seen[e.value]

\* The revision of an attempt's receipt is what the attempt asks for.
AttemptOK(a) ==
    a # NoAttempt =>
        /\ a.key \in 1..keys /\ a.base \in 1..Head1 /\ EditsOK(a.edits)
        /\ \A e \in a.edits : e.base = history[a.base][e.path] /\ e.value # e.base
        /\ receipts[a.key] # 0 => history[receipts[a.key]] = Result(a)

RecordOK(o) ==
    /\ EditsOK(o.edits) /\ o.base <= Head1
    /\ o.attempt # NoAttempt => o.attempt.edits = o.edits /\ o.attempt.base = o.base

Known(a) ==
    \/ a \in requests \/ a = NoAttempt
    \/ \E t \in Tabs : \/ a = tab[t].attempt \/ a = outbox[t].attempt
                       \/ \E c \in tab[t].listed : a = c.record.attempt

\* A key names one attempt, wherever copies of it are.
AttemptsOK ==
    /\ \A a \in AttemptRows : Known(a) => AttemptOK(a)
    /\ \A a, b \in AttemptRows : Known(a) /\ Known(b) /\ a.key = b.key => a = b

\* The fields a row differs in from the revision it names.
Changed(r) ==
    {[path |-> p, base |-> history[r.persisted][p], value |-> r.working[p]] :
        p \in {q \in Paths : r.working[q] # history[r.persisted][q]}}

\* What a document holds, beside its own record of the outbox.
WorkOK(r) ==
    /\ r.persisted \in 1..Head1
    /\ \A p \in Paths : r.working[p] <= made
    /\ \A p \in Paths : r.working[p] # history[r.persisted][p] =>
          r.working[p] # 0 /\ history[r.persisted][p] \in seen[r.working[p]]
    /\ r.status = "saved" => r.working = history[r.persisted]
    /\ r.attempt # NoAttempt => r.attempt.base = r.persisted /\ r.attempt.edits = Changed(r)

PhaseOK(r, o) ==
    /\ r.phase # "ready" => /\ r.status = "saved" /\ r.attempt = NoAttempt
                            /\ r.conflicts = {} /\ r.pending = {}
    /\ r.phase # "reading" => r.listed = {}
    /\ r.phase \in {"loading", "reading"} => o = NoRecord
    /\ r.status = "saving" => r.attempt # NoAttempt

ConflictsOK(r, o) ==
    /\ r.conflicts \subseteq r.pending
    /\ r.conflicts # {} =>
         /\ r.status \in {"saved", "dirty"} /\ r.attempt = NoAttempt
         /\ o.edits = r.pending
         /\ \A e \in r.pending \ r.conflicts : r.working[e.path] = e.value

\* A recorded edit of a ready document is on its screen, if it is not in conflict
\* or in a revision already.
ScreenOK(r, o) ==
    r.phase = "ready" =>
        \A e \in o.edits : <<e.path, e.value>> \in recorded =>
            \/ InHistory(<<e.path, e.value>>) \/ r.working[e.path] = e.value
            \/ e \in r.conflicts

TabOK(r, o) == WorkOK(r) /\ PhaseOK(r, o) /\ ConflictsOK(r, o) /\ ScreenOK(r, o)

\* Where an edit can be that is not in a revision: only one scope has it.
Place(r, o) == Facts(o.edits) \cup {<<p, r.working[p]>> : p \in Paths}
PlaceOf(t) == Place(tab[t], outbox[t])

OnePlace ==
    \A t, u \in Tabs : t # u => \A f \in PlaceOf(t) \cap PlaceOf(u) : InHistory(f)

\* What a document has listed is a record each of other scopes, which no third
\* scope has.
ListedOK(t) ==
    /\ IsFiniteSet(tab[t].listed)
    /\ \A c \in tab[t].listed : c.scope # t /\ RecordOK(c.record)
    /\ \A c, d \in tab[t].listed : c.scope = d.scope => c = d
    /\ \A c \in tab[t].listed : \A u \in Tabs \ {c.scope} :
          \A f \in Facts(c.record.edits) \cap PlaceOf(u) : InHistory(f)

\* One document reads at a time, and what it has not listed was recorded
\* meanwhile.
ReadingOK ==
    /\ \A t, u \in Tabs : tab[t].phase = "reading" /\ tab[u].phase = "reading" => t = u
    /\ \A t, u \in Tabs : tab[t].phase = "reading" =>
          \/ outbox[u] = NoRecord
          \/ [scope |-> u, record |-> outbox[u]] \in tab[t].listed
          \/ Facts(outbox[u].edits) \subseteq raced

ScopesOK == \A t \in Tabs : /\ RecordOK(outbox[t]) /\ TabOK(tab[t], outbox[t])
                            /\ ListedOK(t)

EditorInv ==
    /\ RowTypes /\ ServerOK /\ AttemptsOK /\ ScopesOK /\ OnePlace /\ ReadingOK
    /\ SettledEditSurvives

-----------------------------------------------------------------------------
(* Helpers *)

\* The largest of some numbers below a bound.
LEMMA LargestOf ==
    ASSUME NEW N \in Nat, NEW S \in SUBSET (0..N), S # {}
    PROVE  Max(S) \in S /\ \A x \in S : x <= Max(S)
  <1> DEFINE Below == OpToRel(<, Nat)
             T == {N - x : x \in S}
  <1>1. T \subseteq Nat /\ T # {}
    OBVIOUS
  <1>2. IsWellFoundedOn(Below, Nat)
    BY NatLessThanWellFounded
  <1>3. \A x, y \in Nat : y < x => <<y, x>> \in Below
    BY DEF OpToRel
  <1> HIDE DEF Below, T
  <1>4. PICK m \in T : \A y \in T : ~ (<<y, m>> \in Below)
    BY <1>1, <1>2, WFMin
  <1> USE DEF T
  <1>5. PICK x \in S : m = N - x
    BY <1>4
  <1>6. \A y \in S : y <= x
    <2> TAKE y \in S
    <2>1. N - y \in T /\ N - y \in Nat /\ m \in Nat
      BY <1>1, <1>5
    <2>2. ~(N - y < m)
      BY <2>1, <1>3, <1>4
    <2> QED BY <2>2, <1>5
  <1>7. \E a \in S : \A y \in S : a >= y
    BY <1>6
  <1> QED BY <1>7 DEF Max

LEMMA LargerOf ==
    ASSUME NEW a \in Nat, NEW b \in Nat
    PROVE  Max({a, b}) = IF a <= b THEN b ELSE a
  <1>1. {a, b} \in SUBSET (0..(a + b)) /\ a + b \in Nat /\ {a, b} # {}
    OBVIOUS
  <1>2. Max({a, b}) \in {a, b} /\ \A x \in {a, b} : x <= Max({a, b})
    BY <1>1, LargestOf
  <1> QED BY <1>2

\* Revisions stay, values and keys are only added, and who saw a value has seen it.
Grown ==
    /\ Head1 <= Head1' /\ \A r \in 1..Head1 : history'[r] = history[r]
    /\ made <= made' /\ keys <= keys'
    /\ \A v \in 1..made : seen[v] \subseteq seen'[v]

LEMMA HistoryStays ==
    ASSUME RowTypes, RowTypes', Grown, NEW f, InHistory(f) PROVE InHistory(f)'
  <1>1. PICK r \in 1..Head1 : history[r][f[1]] = f[2]
    BY DEF InHistory
  <1>2. Head1 \in Nat /\ Head1' \in Nat
    BY DEF RowTypes, Head1
  <1>3. r \in 1..Head1' /\ history'[r] = history[r]
    BY <1>1, <1>2 DEF Grown
  <1> QED BY <1>1, <1>3 DEF InHistory

LEMMA RevisionTyped ==
    ASSUME RowTypes, NEW r \in 1..Head1 PROVE history[r] \in [Paths -> Nat]
  <1>1. history \in Seq([Paths -> Nat])
    BY DEF RowTypes
  <1> QED BY <1>1 DEF Head1

LEMMA RevisionIsHistory ==
    ASSUME RowTypes, NEW r \in 1..Head1, NEW p PROVE InHistory(<<p, history[r][p]>>)
  BY DEF InHistory

LEMMA EditsStay ==
    ASSUME RowTypes, RowTypes', Grown, NEW E \in SUBSET Edits, EditsOK(E) PROVE EditsOK(E)'
  <1> SUFFICES ASSUME NEW e \in E
               PROVE  e.value \in 1..made' /\ e.base \in seen'[e.value]
    BY DEF EditsOK
  <1>1. e.value \in 1..made /\ e.base \in seen[e.value]
    BY DEF EditsOK
  <1> QED BY <1>1 DEF Grown, RowTypes

LEMMA ResultStays ==
    ASSUME RowTypes, RowTypes', Grown, NEW a, a.base \in 1..Head1
    PROVE  Result(a)' = Result(a)
  BY DEF Result, Grown

LEMMA AttemptStays ==
    ASSUME RowTypes, RowTypes', ServerOK, Grown, NEW a \in AttemptRows, AttemptOK(a),
           \A k \in 1..MaxAttempts : receipts[k] # 0 => receipts'[k] = receipts[k],
           receipts[a.key] = 0 /\ receipts'[a.key] # 0 => history'[receipts'[a.key]] = Result(a)
    PROVE  AttemptOK(a)'
  <1> SUFFICES ASSUME a # NoAttempt PROVE AttemptOK(a)'
    BY DEF AttemptOK
  <1>1. /\ a.key \in 1..keys /\ a.base \in 1..Head1 /\ EditsOK(a.edits)
        /\ \A e \in a.edits : e.base = history[a.base][e.path] /\ e.value # e.base
        /\ receipts[a.key] # 0 => history[receipts[a.key]] = Result(a)
        /\ a.edits \in SUBSET Edits
    BY DEF AttemptOK, AttemptRows
  <1>2. Result(a)' = Result(a)
    BY <1>1, ResultStays
  <1>3. EditsOK(a.edits)'
    BY <1>1, EditsStay
  <1>4. a.key \in 1..MaxAttempts /\ a.key \in 1..keys' /\ a.base \in 1..Head1'
    <2>1. Head1 \in Nat /\ Head1' \in Nat /\ keys \in Nat /\ keys' \in Nat
          /\ keys <= MaxAttempts /\ MaxAttempts \in Nat
      BY EditorAssumption DEF RowTypes, Head1
    <2> QED BY <1>1, <2>1 DEF Grown
  <1>5. \A e \in a.edits : e.base = history'[a.base][e.path] /\ e.value # e.base
    BY <1>1 DEF Grown
  <1>6. receipts[a.key] # 0 => history'[receipts[a.key]] = history[receipts[a.key]]
    <2>1. receipts[a.key] \in Nat /\ receipts[a.key] <= Head1 /\ Head1 \in Nat
      BY <1>4 DEF ServerOK, RowTypes, Head1
    <2> QED BY <2>1 DEF Grown
  <1>7. receipts'[a.key] # 0 => history'[receipts'[a.key]] = Result(a)
    BY <1>1, <1>4, <1>6
  <1> QED BY <1>2, <1>3, <1>4, <1>5, <1>7 DEF AttemptOK

LEMMA RecordStays ==
    ASSUME RowTypes, RowTypes', Grown, NEW o \in RecordRows, RecordOK(o) PROVE RecordOK(o)'
  <1>1. o.edits \in SUBSET Edits /\ o.base \in Nat
    BY DEF RecordRows
  <1>2. EditsOK(o.edits)'
    BY <1>1, EditsStay DEF RecordOK
  <1>3. o.base <= Head1'
    BY <1>1 DEF RecordOK, Grown, Head1, RowTypes
  <1> QED BY <1>2, <1>3 DEF RecordOK

LEMMA NothingOK ==
    /\ EditsOK({}) /\ AttemptOK(NoAttempt) /\ (RowTypes => RecordOK(NoRecord))
    /\ NoAttempt \in AttemptRows /\ NoRecord \in RecordRows
    /\ NoAttempt.edits = {} /\ NoRecord.edits = {} /\ NoRecord.attempt = NoAttempt
  <1>1. EditsOK({})
    BY DEF EditsOK, OnePerPath
  <1>2. NoAttempt \in AttemptRows /\ NoAttempt.edits = {}
    BY DEF NoAttempt, AttemptRows, None
  <1>3. /\ NoRecord \in RecordRows /\ NoRecord.edits = {} /\ NoRecord.base = 0
        /\ NoRecord.attempt = NoAttempt
    BY <1>2 DEF NoRecord, RecordRows
  <1>4. RowTypes => 0 <= Head1
    BY DEF RowTypes, Head1
  <1> QED BY <1>1, <1>2, <1>3, <1>4 DEF AttemptOK, RecordOK

\* A row is still in order when more has been saved, entered and recorded, unless
\* it holds what is newly recorded.
LEMMA TabStays ==
    ASSUME RowTypes, RowTypes', Grown, NEW r \in TabRows, NEW o \in RecordRows, TabOK(r, o),
           \A f \in Facts(o.edits) : f \in recorded' \ recorded => InHistory(f)
    PROVE  TabOK(r, o)'
  <1>1. r.persisted \in 1..Head1 /\ history'[r.persisted] = history[r.persisted]
        /\ r.persisted \in 1..Head1' /\ r.working \in [Paths -> Nat]
    <2>1. r.persisted \in 1..Head1 /\ r.working \in [Paths -> Nat]
      BY DEF TabOK, WorkOK, TabRows
    <2>2. Head1 \in Nat /\ Head1' \in Nat
      BY DEF Head1, RowTypes
    <2> QED BY <2>1, <2>2 DEF Grown
  <1>2. Changed(r)' = Changed(r)
    BY <1>1 DEF Changed
  <1>3. WorkOK(r)'
    <2>1. \A p \in Paths : r.working[p] \in Nat /\ r.working[p] <= made'
      BY <1>1 DEF TabOK, WorkOK, Grown, RowTypes
    <2>2. ASSUME NEW p \in Paths, r.working[p] # history'[r.persisted][p]
          PROVE  r.working[p] # 0 /\ history'[r.persisted][p] \in seen'[r.working[p]]
      <3>1. r.working[p] # 0 /\ history[r.persisted][p] \in seen[r.working[p]]
            /\ r.working[p] \in 1..made
        BY <1>1, <2>2 DEF TabOK, WorkOK, RowTypes
      <3> QED BY <1>1, <3>1 DEF Grown
    <2> QED BY <1>1, <1>2, <2>1, <2>2 DEF TabOK, WorkOK
  <1>4. ScreenOK(r, o)'
    <2> SUFFICES ASSUME r.phase = "ready", NEW e \in o.edits, <<e.path, e.value>> \in recorded'
                 PROVE  \/ InHistory(<<e.path, e.value>>)' \/ r.working[e.path] = e.value
                        \/ e \in r.conflicts
      BY DEF ScreenOK
    <2>1. <<e.path, e.value>> \in Facts(o.edits)
      BY DEF Facts
    <2>2. \/ InHistory(<<e.path, e.value>>) \/ r.working[e.path] = e.value
          \/ e \in r.conflicts
      BY <2>1 DEF TabOK, ScreenOK
    <2> QED BY <2>2, HistoryStays
  <1> QED BY <1>3, <1>4 DEF TabOK, PhaseOK, ConflictsOK

\* The rows of the documents and of what they have listed.
LEMMA ListedRows ==
    ASSUME RowTypes, NEW t \in Tabs, NEW c \in tab[t].listed
    PROVE  c \in Listings /\ c.record \in RecordRows /\ c.scope \in Tabs
           /\ c.record.attempt \in AttemptRows /\ c.record.edits \in SUBSET Edits
  <1>1. tab[t] \in TabRows
    BY DEF RowTypes
  <1>2. c \in Listings
    BY <1>1 DEF TabRows
  <1>3. c.record \in RecordRows /\ c.scope \in Tabs
    BY <1>2 DEF Listings
  <1> QED BY <1>2, <1>3 DEF RecordRows

LEMMA RowFields ==
    ASSUME RowTypes, NEW t \in Tabs
    PROVE  /\ tab[t] \in TabRows /\ outbox[t] \in RecordRows
           /\ tab[t].attempt \in AttemptRows /\ outbox[t].attempt \in AttemptRows
           /\ outbox[t].edits \in SUBSET Edits /\ tab[t].working \in [Paths -> Nat]
  BY DEF RowTypes, TabRows, RecordRows

\* A value that was just entered is at no other document.
LEMMA FactsEntered ==
    ASSUME RowTypes, NEW E \in SUBSET Edits, EditsOK(E), NEW f \in Facts(E)
    PROVE  ~ (f[2] > made)
  <1>1. PICK e \in E : f = <<e.path, e.value>>
    BY DEF Facts
  <1>2. e.value \in 1..made /\ made \in Nat
    BY DEF EditsOK, RowTypes
  <1> QED BY <1>1, <1>2

LEMMA PlaceEntered ==
    ASSUME RowTypes, ScopesOK, NEW u \in Tabs, NEW f \in PlaceOf(u)
    PROVE  ~ (f[2] > made)
  <1>1. CASE f \in Facts(outbox[u].edits)
    BY <1>1, FactsEntered, RowFields DEF ScopesOK, RecordOK
  <1>2. CASE f \in {<<p, tab[u].working[p]>> : p \in Paths}
    <2>1. PICK p \in Paths : f = <<p, tab[u].working[p]>>
      BY <1>2
    <2>2. tab[u].working[p] \in Nat /\ tab[u].working[p] <= made /\ made \in Nat
      BY RowFields DEF ScopesOK, TabOK, WorkOK, RowTypes
    <2> QED BY <2>1, <2>2
  <1> QED BY <1>1, <1>2 DEF PlaceOf, Place

-----------------------------------------------------------------------------
(* A step of one document that saves no revision and reads no other scope *)

LEMMA MoveKeeps ==
    ASSUME EditorInv, NEW t \in Tabs, NEW r \in TabRows, NEW o \in RecordRows,
           tab' = [tab EXCEPT ![t] = r], outbox' = [outbox EXCEPT ![t] = o],
           UNCHANGED <<history, receipts>>,
           made' \in made..MaxEdits, keys' \in keys..MaxAttempts,
           seen' \in [1..MaxEdits -> SUBSET Nat], \A v \in 1..made : seen[v] \subseteq seen'[v],
           requests' \subseteq AttemptRows \ {NoAttempt},
           r.phase # "reading", TabOK(r, o)',
           o = outbox[t] \/ o = NoRecord \/ RecordOK(o)',
           NEW x \in AttemptRows, Known(x) \/ (x.key = keys + 1 /\ AttemptOK(x)'),
           \A a \in requests' \cup {r.attempt, o.attempt} : Known(a) \/ a = x,
           \A f \in Place(r, o) : f \in PlaceOf(t) \/ InHistory(f) \/ f[2] > made,
           recorded' \subseteq recorded \cup Facts(o.edits),
           recorded' \ recorded \subseteq PlaceOf(t),
           \A f \in Facts(outbox[t].edits) \cap recorded' : InHistory(f) \/ f \in Facts(o.edits),
           raced \subseteq raced' \cup Facts(o.edits),
           \/ LockIsFree
           \/ /\ raced \subseteq raced'
              /\ o = outbox[t] \/ o = NoRecord \/ Facts(o.edits) \subseteq raced'
    PROVE  EditorInv'
  <1> USE DEF EditorInv
  <1>1. RowTypes'
    <2>1. outbox' \in [Tabs -> RecordRows] /\ tab' \in [Tabs -> TabRows]
      BY DEF RowTypes
    <2>2. made' \in 0..MaxEdits /\ keys' \in 0..MaxAttempts
      BY EditorAssumption DEF RowTypes
    <2> QED BY <2>1, <2>2 DEF RowTypes
  <1>2. Grown
    BY DEF Grown, RowTypes, Head1
  <1>3. \A f : InHistory(f)' <=> InHistory(f)
    BY DEF InHistory, Head1
  <1>4. /\ tab'[t] = r /\ outbox'[t] = o
        /\ \A u \in Tabs \ {t} : tab'[u] = tab[u] /\ outbox'[u] = outbox[u]
    BY DEF RowTypes
  <1>5. /\ Place(r, o)' = Place(r, o) /\ PlaceOf(t)' = Place(r, o)
        /\ \A u \in Tabs \ {t} : PlaceOf(u)' = PlaceOf(u)
    BY <1>4 DEF Place, PlaceOf
  <1>6. r.listed = {}
    BY DEF TabOK, PhaseOK
  <1>7. ServerOK'
    <2>1. made' \in Nat /\ made \in Nat /\ made <= made' /\ keys \in Nat /\ keys' \in Nat
          /\ keys <= keys'
      BY DEF RowTypes
    <2>2. \A i \in 1..Head1 : \A p \in Paths : history[i][p] \in Nat
      BY DEF RowTypes, Head1
    <2>3. \A i \in 1..Head1 : \A p \in Paths : history[i][p] <= made'
      BY <2>1, <2>2 DEF ServerOK
    <2>4. \A k \in 1..MaxAttempts : receipts[k] <= Head1 /\ (receipts[k] # 0 => k <= keys')
      BY <2>1, EditorAssumption DEF ServerOK
    <2> QED BY <2>3, <2>4 DEF ServerOK, Head1
  <1>8. AttemptsOK'
    <2>1. \A a \in AttemptRows : Known(a)' => Known(a) \/ a = x
      BY <1>4, <1>6 DEF Known
    <2>2. ASSUME NEW a \in AttemptRows, Known(a) PROVE AttemptOK(a)'
      BY <1>1, <1>2, <2>2, AttemptStays DEF AttemptsOK
    <2>3. ASSUME NEW a \in AttemptRows, Known(a) PROVE a.key # keys + 1
      <3>1. a = NoAttempt \/ a.key \in 1..keys
        BY <2>3 DEF AttemptsOK, AttemptOK
      <3>2. keys \in Nat /\ NoAttempt.key = 0
        BY DEF RowTypes, NoAttempt, None
      <3> QED BY <3>1, <3>2
    <2>4. \A a \in AttemptRows : Known(a)' => AttemptOK(a)'
      BY <2>1, <2>2
    <2>5. ASSUME NEW a \in AttemptRows, NEW b \in AttemptRows, Known(a)', Known(b)', a.key = b.key
          PROVE  a = b
      <3>1. CASE Known(a) /\ Known(b)
        BY <2>5, <3>1 DEF AttemptsOK
      <3>2. CASE ~ Known(a) \/ ~ Known(b)
        BY <2>1, <2>3, <2>5, <3>2
      <3> QED BY <3>1, <3>2
    <2> QED BY <2>4, <2>5 DEF AttemptsOK
  <1>9. \A u \in Tabs : RecordOK(outbox[u])' /\ TabOK(tab[u], outbox[u])'
    <2>1. RecordOK(outbox[t])' /\ TabOK(tab[t], outbox[t])'
      <3>1. o = outbox[t] => RecordOK(o)'
        BY <1>1, <1>2, RecordStays DEF ScopesOK
      <3>2. RecordOK(NoRecord)'
        BY <1>1, NothingOK, PTL
      <3> QED BY <1>4, <3>1, <3>2 DEF RecordOK, TabOK, WorkOK, PhaseOK, ConflictsOK, ScreenOK, Changed
    <2>2. ASSUME NEW u \in Tabs \ {t} PROVE RecordOK(outbox[u])' /\ TabOK(tab[u], outbox[u])'
      <3>1. PICK s \in TabRows, q \in RecordRows : s = tab[u] /\ q = outbox[u]
        BY RowFields
      <3>2. RecordOK(q) /\ TabOK(s, q)
        BY <3>1 DEF ScopesOK
      <3>3. \A f \in Facts(q.edits) : f \in recorded' \ recorded => InHistory(f)
        BY <3>1 DEF OnePlace, PlaceOf, Place
      <3>4. RecordOK(q)'
        BY <1>1, <1>2, <3>2, RecordStays
      <3>5. TabOK(s, q)'
        BY <1>1, <1>2, <3>2, <3>3, TabStays
      <3>6. tab'[u] = s /\ outbox'[u] = q
        BY <1>4, <3>1
      <3>7. RecordOK(outbox[u])'
        BY <3>4, <3>6 DEF RecordOK
      <3>8. WorkOK(tab[u])'
        BY <3>5, <3>6 DEF TabOK, WorkOK, Changed
      <3>9. PhaseOK(tab[u], outbox[u])' /\ ConflictsOK(tab[u], outbox[u])'
            /\ ScreenOK(tab[u], outbox[u])'
        BY <3>5, <3>6 DEF TabOK, PhaseOK, ConflictsOK, ScreenOK
      <3> QED BY <3>7, <3>8, <3>9 DEF TabOK
    <2> QED BY <2>1, <2>2
  <1>10. \A u \in Tabs : ListedOK(u)'
    <2> SUFFICES ASSUME NEW u \in Tabs PROVE ListedOK(u)'
      OBVIOUS
    <2>1. CASE u = t
      BY <1>4, <1>6, <2>1, FS_EmptySet DEF ListedOK
    <2>2. CASE u # t
      <3>1. tab'[u].listed = tab[u].listed /\ ListedOK(u)
        BY <1>4, <2>2 DEF ScopesOK
      <3>2. \A c \in tab[u].listed : RecordOK(c.record)'
        BY <1>1, <1>2, <3>1, RecordStays, ListedRows DEF ListedOK
      <3>3. ASSUME NEW c \in tab[u].listed, NEW w \in Tabs \ {c.scope},
                   NEW f \in Facts(c.record.edits) \cap PlaceOf(w)'
            PROVE  InHistory(f)
        <4>1. CASE w # t
          BY <1>5, <3>1, <3>3, <4>1 DEF ListedOK
        <4>2. CASE w = t
          <5>1. f \in PlaceOf(t) \/ InHistory(f) \/ f[2] > made
            BY <1>5, <3>3, <4>2
          <5>2. ~ (f[2] > made)
            BY <3>1, FactsEntered, ListedRows DEF ListedOK, RecordOK
          <5> QED BY <5>1, <5>2, <3>1, <4>2 DEF ListedOK
        <4> QED BY <4>1, <4>2
      <3>4. \A c \in tab[u].listed : Facts(c.record.edits)' = Facts(c.record.edits)
        BY DEF Facts
      <3> QED BY <1>3, <3>1, <3>2, <3>3, <3>4 DEF ListedOK
    <2> QED BY <2>1, <2>2
  <1>11. OnePlace'
    <2> SUFFICES ASSUME NEW u \in Tabs, NEW w \in Tabs, u # w,
                        NEW f \in PlaceOf(u)' \cap PlaceOf(w)'
                 PROVE  InHistory(f)
      BY <1>3 DEF OnePlace
    <2>1. CASE u # t /\ w # t
      BY <1>5, <2>1 DEF OnePlace
    <2>2. ASSUME NEW v \in Tabs \ {t}, f \in PlaceOf(v), f \in Place(r, o) PROVE InHistory(f)
      BY <2>2, PlaceEntered DEF OnePlace
    <2> QED BY <1>5, <2>1, <2>2
  <1>12. ReadingOK'
    <2>1. \A u \in Tabs : tab'[u].phase = "reading" => u # t /\ tab[u] = tab'[u] /\ ~ LockIsFree
      BY <1>4 DEF LockIsFree
    <2>2. \A u, w \in Tabs : tab'[u].phase = "reading" /\ tab'[w].phase = "reading" => u = w
      BY <2>1 DEF ReadingOK
    <2>3. ASSUME NEW u \in Tabs, NEW w \in Tabs, tab'[u].phase = "reading"
          PROVE  \/ outbox'[w] = NoRecord
                 \/ [scope |-> w, record |-> outbox'[w]] \in tab'[u].listed
                 \/ Facts(outbox'[w].edits) \subseteq raced'
      <3>1. \/ outbox[w] = NoRecord
            \/ [scope |-> w, record |-> outbox[w]] \in tab[u].listed
            \/ Facts(outbox[w].edits) \subseteq raced
        BY <2>1, <2>3 DEF ReadingOK
      <3>2. raced \subseteq raced' /\ tab[u] = tab'[u]
        BY <2>1, <2>3
      <3>3. outbox'[w] = outbox[w] \/ outbox'[w] = NoRecord \/ Facts(outbox'[w].edits) \subseteq raced'
        BY <1>4, <2>1, <2>3
      <3> QED BY <3>1, <3>2, <3>3
    <2> QED BY <2>2, <2>3 DEF ReadingOK, Facts
  <1>13. SettledEditSurvives'
    <2> SUFFICES ASSUME NEW f \in recorded' \ raced', f \notin Facts(o.edits)
                 PROVE  InHistory(f) \/ \E u \in Tabs : f \in Facts(outbox'[u].edits)
      BY <1>3, <1>4 DEF SettledEditSurvives, Survives, InHistory, Facts
    <2>1. InHistory(f) \/ \E u \in Tabs : f \in Facts(outbox[u].edits)
      BY DEF SettledEditSurvives, Survives, InHistory
    <2> QED BY <1>4, <2>1
  <1> QED BY <1>1, <1>7, <1>8, <1>9, <1>10, <1>11, <1>12, <1>13 DEF ScopesOK

-----------------------------------------------------------------------------
(* The steps of one document *)

\* What a document shows beside the revision it names, as edits to record.
LEMMA ChangedOK ==
    ASSUME RowTypes, NEW t \in Tabs, WorkOK(tab[t])
    PROVE  /\ changedFields(t) = Changed(tab[t]) /\ changedFields(t) \in SUBSET Edits
           /\ EditsOK(changedFields(t))
           /\ \A e \in changedFields(t) :
                 /\ e.base = history[tab[t].persisted][e.path] /\ e.value # e.base
                 /\ e.value = tab[t].working[e.path]
           /\ \A p \in Paths : \/ <<p, tab[t].working[p]>> \in Facts(changedFields(t))
                               \/ tab[t].working[p] = history[tab[t].persisted][p]
           /\ Facts(changedFields(t)) \subseteq PlaceOf(t)
  <1>1. tab[t].working \in [Paths -> Nat] /\ tab[t].persisted \in 1..Len(history)
        /\ history[tab[t].persisted] \in [Paths -> Nat] /\ made \in Nat
    BY RowFields DEF WorkOK, RowTypes, Head1
  <1>2. changedFields(t) = Changed(tab[t])
    BY DEF changedFields, Changed, Stored
  <1>3. \A e \in changedFields(t) :
           /\ e \in Edits /\ e.base = history[tab[t].persisted][e.path] /\ e.value # e.base
           /\ e.value = tab[t].working[e.path]
    BY <1>1 DEF changedFields, Stored, Edits
  <1>4. OnePerPath(changedFields(t))
    BY DEF OnePerPath, changedFields
  <1>5. \A e \in changedFields(t) : e.value \in 1..made /\ e.base \in seen[e.value]
    BY <1>1, <1>3 DEF WorkOK, Edits
  <1>6. ASSUME NEW p \in Paths, tab[t].working[p] # history[tab[t].persisted][p]
        PROVE  <<p, tab[t].working[p]>> \in Facts(changedFields(t))
    <2>1. [path |-> p, base |-> Stored(t, p), value |-> tab[t].working[p]] \in changedFields(t)
      BY <1>6 DEF changedFields, Stored
    <2> QED BY <2>1 DEF Facts
  <1>7. Facts(changedFields(t)) \subseteq PlaceOf(t)
    <2> SUFFICES ASSUME NEW e \in changedFields(t) PROVE <<e.path, e.value>> \in PlaceOf(t)
      BY DEF Facts
    <2> QED BY <1>3 DEF PlaceOf, Place, Edits
  <1> QED BY <1>2, <1>3, <1>4, <1>5, <1>6, <1>7 DEF EditsOK

\* What a document without conflicts has recorded is among its changes, or saved.
LEMMA ScreenCovers ==
    ASSUME EditorInv, NEW t \in Tabs, EditorReady(t), tab[t].conflicts = {},
           NEW f \in Facts(outbox[t].edits) \cap recorded
    PROVE  InHistory(f) \/ f \in Facts(changedFields(t))
  <1>1. RowTypes /\ WorkOK(tab[t]) /\ ScreenOK(tab[t], outbox[t])
    BY DEF EditorInv, ScopesOK, TabOK
  <1>2. PICK e \in outbox[t].edits : f = <<e.path, e.value>>
    BY DEF Facts
  <1>3. e \in Edits
    BY <1>1, RowFields
  <1>4. InHistory(f) \/ tab[t].working[e.path] = e.value
    BY <1>1, <1>2 DEF ScreenOK, EditorReady
  <1>5. CASE tab[t].working[e.path] = e.value
    <2>1. e.path \in Paths /\ tab[t].persisted \in 1..Head1
      BY <1>1, <1>3 DEF Edits, WorkOK
    <2>2. \/ <<e.path, tab[t].working[e.path]>> \in Facts(changedFields(t))
          \/ tab[t].working[e.path] = history[tab[t].persisted][e.path]
      BY <1>1, <2>1, ChangedOK
    <2> QED BY <1>1, <1>2, <1>5, <2>1, <2>2, RevisionIsHistory
  <1> QED BY <1>4, <1>5

\* A row that shows what it did before.
LEMMA WorkStays ==
    ASSUME RowTypes, NEW s \in TabRows, WorkOK(s), NEW r \in TabRows,
           r.persisted = s.persisted, r.working = s.working,
           UNCHANGED <<history, made, seen>>,
           r.status = "saved" => s.status = "saved",
           r.attempt = NoAttempt \/ (r.attempt.base = r.persisted /\ r.attempt.edits = Changed(s))
    PROVE  WorkOK(r)' /\ Changed(r)' = Changed(s)
  BY DEF WorkOK, Changed, Head1

LEMMA NothingKnown == ASSUME TRUE PROVE Known(NoAttempt)
  BY DEF Known

LEMMA ChangeKeeps ==
    ASSUME EditorInv, NEW t \in Tabs, NEW p \in Paths, NEW value \in Nat,
           Unlocked(t), ChangeTo(t, p, value),
           UNCHANGED <<serverVars, outbox, keys, raced>>,
           made' \in made..MaxEdits, value <= made', seen' \in [1..MaxEdits -> SUBSET Nat],
           \A v \in 1..made : seen[v] \subseteq seen'[v],
           \/ value = Stored(t, p)
           \/ value = made + 1 /\ Stored(t, p) \in seen'[value]
    PROVE  EditorInv'
  <1> DEFINE w == [tab[t].working EXCEPT ![p] = value]
             n == [tab[t] EXCEPT !.working = w, !.status = StatusOf(t, w),
                                 !.attempt = NoAttempt]
  <1>1. /\ RowTypes /\ TabOK(tab[t], outbox[t]) /\ RecordOK(outbox[t])
        /\ tab[t].conflicts = {} /\ tab[t].phase = "ready" /\ tab \in [Tabs -> TabRows]
        /\ made \in Nat /\ made' \in Nat /\ keys \in 0..MaxAttempts
    BY DEF EditorInv, ScopesOK, Unlocked, EditorReady, RowTypes
  <1>2. tab[t] \in TabRows /\ outbox[t] \in RecordRows /\ w \in [Paths -> Nat]
        /\ tab[t].persisted \in 1..Head1 /\ tab[t].working \in [Paths -> Nat]
    BY <1>1, RowFields DEF TabOK, WorkOK
  <1>3. n \in TabRows
    BY <1>2, NothingOK DEF TabRows, StatusOf
  <1>4. tab' = [tab EXCEPT ![t] = n] /\ recorded' = recorded \ {<<p, tab[t].working[p]>>}
    BY <1>1 DEF ChangeTo, TabRows
  <1>5. PICK r \in TabRows : r = n
    BY <1>3
  <1>6. /\ r.working = w /\ r.status = StatusOf(t, w) /\ r.attempt = NoAttempt
        /\ r.persisted = tab[t].persisted /\ r.phase = "ready" /\ r.listed = tab[t].listed
        /\ r.conflicts = {} /\ r.pending = tab[t].pending
    BY <1>1, <1>2, <1>5 DEF TabRows
  <1>7. PICK o \in RecordRows : o = outbox[t]
    BY <1>2
  <1>8. WorkOK(r)'
    <2>1. \A q \in Paths : r.working[q] \in Nat /\ r.working[q] <= made'
      BY <1>1, <1>2, <1>6 DEF TabOK, WorkOK
    <2>2. \A q \in Paths : r.working[q] # history[r.persisted][q] =>
             r.working[q] # 0 /\ history[r.persisted][q] \in seen'[r.working[q]]
      <3> SUFFICES ASSUME NEW q \in Paths, r.working[q] # history[r.persisted][q]
                   PROVE  r.working[q] # 0 /\ history[r.persisted][q] \in seen'[r.working[q]]
        OBVIOUS
      <3>1. CASE q = p
        BY <1>1, <1>2, <1>6, <3>1 DEF Stored
      <3>2. CASE q # p
        <4>1. r.working[q] = tab[t].working[q]
          BY <1>2, <1>6, <3>2
        <4>2. r.working[q] # 0 /\ history[r.persisted][q] \in seen[r.working[q]]
              /\ r.working[q] \in 1..made
          BY <1>1, <1>2, <1>6, <4>1 DEF TabOK, WorkOK
        <4> QED BY <4>2
      <3> QED BY <3>1, <3>2
    <2>3. r.status = "saved" => r.working = history[r.persisted]
      BY <1>6 DEF StatusOf
    <2> QED BY <1>2, <1>6, <2>1, <2>2, <2>3 DEF WorkOK, serverVars, Head1
  <1>9. PhaseOK(r, o)' /\ ConflictsOK(r, o)'
    BY <1>1, <1>2, <1>6, <1>7 DEF PhaseOK, ConflictsOK, TabOK, StatusOf
  <1>10. ScreenOK(r, o)'
    <2> SUFFICES ASSUME NEW e \in o.edits, <<e.path, e.value>> \in recorded'
                 PROVE  InHistory(<<e.path, e.value>>) \/ r.working[e.path] = e.value
      BY DEF ScreenOK, InHistory, Head1, serverVars
    <2>1. InHistory(<<e.path, e.value>>) \/ tab[t].working[e.path] = e.value
      BY <1>1, <1>4, <1>7 DEF TabOK, ScreenOK
    <2>2. CASE e.path = p
      BY <1>4, <2>1, <2>2
    <2>3. CASE e.path # p
      BY <1>2, <1>6, <2>1, <2>3
    <2> QED BY <2>2, <2>3
  <1>11. \A f \in Place(r, o) : f \in PlaceOf(t) \/ InHistory(f) \/ f[2] > made
    <2>1. \A f \in Facts(o.edits) : f \in PlaceOf(t)
      BY <1>7 DEF PlaceOf, Place
    <2>2. ASSUME NEW q \in Paths
          PROVE  LET f == <<q, r.working[q]>>
                 IN f \in PlaceOf(t) \/ InHistory(f) \/ f[2] > made
      <3>1. CASE q # p
        BY <1>2, <1>6, <3>1 DEF PlaceOf, Place
      <3>2. CASE q = p
        <4>1. r.working[q] = value
          BY <1>2, <1>6, <3>2
        <4>2. value = made + 1 => value > made
          BY <1>1
        <4> QED BY <1>1, <1>2, <3>2, <4>1, <4>2, RevisionIsHistory DEF Stored
      <3> QED BY <3>1, <3>2
    <2> QED BY <2>1, <2>2 DEF Place
  <1>12. /\ outbox' = [outbox EXCEPT ![t] = o] /\ UNCHANGED <<history, receipts>>
         /\ requests' \subseteq AttemptRows \ {NoAttempt} /\ keys' \in keys..MaxAttempts
    BY <1>1, <1>7, EditorAssumption DEF serverVars, RowTypes
  <1>13. /\ \A a \in requests' \cup {r.attempt, o.attempt} : Known(a) \/ a = NoAttempt
         /\ Known(NoAttempt) /\ NoAttempt \in AttemptRows
    BY <1>6, <1>7, NothingOK DEF Known, serverVars
  <1>14. TabOK(r, o)'
    BY <1>8, <1>9, <1>10 DEF TabOK
  <1>15. /\ tab' = [tab EXCEPT ![t] = r] /\ r.phase # "reading"
         /\ \A f \in Facts(outbox[t].edits) \cap recorded' : f \in Facts(o.edits)
         /\ recorded' \subseteq recorded /\ raced \subseteq raced' /\ o = outbox[t]
    BY <1>4, <1>5, <1>6, <1>7
  <1> HIDE DEF n, w
  <1> QED BY <1>11, <1>12, <1>13, <1>14, <1>15, MoveKeeps

LEMMA EditKeeps ==
    ASSUME EditorInv, NEW t \in Tabs, NEW p \in Paths, edit(t, p) PROVE EditorInv'
  <1>1. /\ RowTypes /\ made \in 0..MaxEdits /\ made' = made + 1 /\ made' \in 1..MaxEdits
        /\ seen \in [1..MaxEdits -> SUBSET Nat]
    BY EditorAssumption DEF EditorInv, RowTypes, edit
  <1>2. Stored(t, p) \in Nat
    BY <1>1 DEF Stored, EditorInv, ScopesOK, TabOK, WorkOK, RowTypes, Head1
  <1>3. seen' = [seen EXCEPT ![made'] = {Stored(t, p)}]
    BY DEF edit
  <1>4. /\ seen' \in [1..MaxEdits -> SUBSET Nat]
        /\ \A v \in 1..made : seen'[v] = seen[v]
        /\ Stored(t, p) \in seen'[made']
    BY <1>1, <1>2, <1>3
  <1>5. PICK value \in Nat : value = made'
    BY <1>1
  <1>6. made' \in made..MaxEdits /\ value <= made' /\ value = made + 1
    BY <1>1, <1>5
  <1>7. ChangeTo(t, p, value) /\ Unlocked(t) /\ UNCHANGED <<serverVars, outbox, keys, raced>>
    BY <1>5 DEF edit
  <1> QED BY <1>4, <1>5, <1>6, <1>7, ChangeKeeps

LEMMA MoveEditHistoryKeeps ==
    ASSUME EditorInv, NEW t \in Tabs, NEW p \in Paths, moveEditHistory(t, p) PROVE EditorInv'
  <1>1. RowTypes /\ made \in 0..MaxEdits /\ seen \in [1..MaxEdits -> SUBSET Nat]
    BY DEF EditorInv, RowTypes
  <1>2. Stored(t, p) \in Nat /\ Stored(t, p) <= made
    BY <1>1 DEF Stored, EditorInv, ScopesOK, TabOK, WorkOK, ServerOK, RowTypes, Head1
  <1>3. PICK value \in Nat : value = Stored(t, p)
    BY <1>2
  <1>4. /\ ChangeTo(t, p, value) /\ Unlocked(t)
        /\ UNCHANGED <<serverVars, outbox, made, keys, raced, seen>>
    BY <1>3 DEF moveEditHistory
  <1>5. made' \in made..MaxEdits /\ value <= made'
    BY <1>1, <1>2, <1>3, <1>4, EditorAssumption
  <1> QED BY <1>1, <1>3, <1>4, <1>5, ChangeKeeps

\* The record of all that a document shows, and the row beside it.
LEMMA RecordedChanges ==
    ASSUME EditorInv, NEW t \in Tabs, EditorReady(t), tab[t].conflicts = {},
           NEW r \in TabRows, NEW o \in RecordRows,
           UNCHANGED <<history, made, seen>>,
           r.phase = "ready", r.working = tab[t].working, r.persisted = tab[t].persisted,
           r.conflicts = {}, r.listed = {}, r.status = "saved" => tab[t].status = "saved",
           r.status = "saving" => r.attempt # NoAttempt,
           r.attempt = NoAttempt
             \/ (r.attempt.base = r.persisted /\ r.attempt.edits = changedFields(t)),
           o = NoRecord \/ o.base = r.persisted,
           o.edits = changedFields(t), o.attempt = NoAttempt \/ o.attempt = r.attempt
    PROVE  /\ TabOK(r, o)' /\ RecordOK(o)'
           /\ Facts(o.edits) \subseteq PlaceOf(t)
           /\ Place(r, o) \subseteq PlaceOf(t)
           /\ \A f \in Facts(outbox[t].edits) \cap recorded :
                 InHistory(f) \/ f \in Facts(o.edits)
  <1>1. RowTypes /\ TabOK(tab[t], outbox[t])
    BY DEF EditorInv, ScopesOK
  <1>2. PICK s \in TabRows : s = tab[t]
    BY <1>1, RowFields
  <1>3. WorkOK(s) /\ changedFields(t) = Changed(s)
    BY <1>1, <1>2, ChangedOK DEF TabOK
  <1>4. WorkOK(r)'
    BY <1>1, <1>2, <1>3, WorkStays
  <1>5. PhaseOK(r, o)' /\ ConflictsOK(r, o)'
    BY DEF PhaseOK, ConflictsOK
  <1>6. /\ EditsOK(o.edits) /\ Facts(o.edits) \subseteq PlaceOf(t)
        /\ \A e \in o.edits : r.working[e.path] = e.value
    BY <1>1, ChangedOK DEF TabOK
  <1>7. ScreenOK(r, o)'
    BY <1>6 DEF ScreenOK
  <1>8. RecordOK(o)'
    <2>1. EditsOK(o.edits)'
      BY <1>6 DEF EditsOK
    <2>2. o.base <= Head1' /\ (o = NoRecord => o.attempt = NoAttempt)
      BY <1>1, NothingOK DEF NoRecord, TabOK, WorkOK, RowTypes, Head1
    <2> QED BY <2>1, <2>2 DEF RecordOK
  <1>9. Place(r, o) \subseteq PlaceOf(t)
    BY <1>6 DEF Place, PlaceOf
  <1> QED BY <1>4, <1>5, <1>6, <1>7, <1>8, <1>9, ScreenCovers DEF TabOK

LEMMA SnapshotKeeps ==
    ASSUME EditorInv, NEW t \in Tabs, snapshot(t) PROVE EditorInv'
  <1>1. /\ RowTypes /\ TabOK(tab[t], outbox[t]) /\ EditorReady(t) /\ tab[t].conflicts = {}
        /\ tab[t].attempt = NoAttempt /\ tab[t].phase = "ready" /\ tab[t].status # "saving"
    BY DEF EditorInv, ScopesOK, snapshot, Unlocked, EditorReady
  <1>2. PICK r \in TabRows : r = tab[t]
    BY <1>1, RowFields
  <1>3. changedFields(t) \in SUBSET Edits /\ tab[t].persisted \in Nat
    BY <1>1, ChangedOK DEF TabOK, WorkOK
  <1>4. PICK o \in RecordRows :
           /\ outbox' = [outbox EXCEPT ![t] = o] /\ o.edits = changedFields(t)
           /\ o.attempt = NoAttempt /\ (o = NoRecord \/ o.base = tab[t].persisted)
    <2> DEFINE n == [base |-> tab[t].persisted, edits |-> changedFields(t),
                     attempt |-> NoAttempt]
    <2>1. n \in RecordRows
      BY <1>3, NothingOK DEF RecordRows
    <2>2. CASE changedFields(t) = {}
      BY <2>2, NothingOK DEF snapshot
    <2>3. CASE changedFields(t) # {}
      BY <2>1, <2>3 DEF snapshot
    <2> QED BY <2>2, <2>3
  <1>5. r.listed = {}
    BY <1>1, <1>2 DEF TabOK, PhaseOK
  <1>6. /\ UNCHANGED <<history, receipts, requests, tab, made, keys, seen>>
        /\ recorded' = recorded \cup Facts(o.edits)
        /\ raced' = IF LockIsFree THEN raced \ Facts(o.edits) ELSE raced \cup Facts(o.edits)
    BY <1>4 DEF snapshot, serverVars
  <1>7. /\ TabOK(r, o)' /\ RecordOK(o)'
        /\ Facts(o.edits) \subseteq PlaceOf(t) /\ Place(r, o) \subseteq PlaceOf(t)
        /\ \A f \in Facts(outbox[t].edits) \cap recorded :
              InHistory(f) \/ f \in Facts(o.edits)
    BY <1>1, <1>2, <1>4, <1>5, <1>6, RecordedChanges
  <1>8. /\ tab' = [tab EXCEPT ![t] = r] /\ made' \in made..MaxEdits
        /\ keys' \in keys..MaxAttempts /\ seen' \in [1..MaxEdits -> SUBSET Nat]
        /\ requests' \subseteq AttemptRows \ {NoAttempt}
    BY <1>1, <1>2, <1>6, EditorAssumption DEF RowTypes
  <1>9. /\ \A a \in requests' \cup {r.attempt, o.attempt} : Known(a) \/ a = NoAttempt
        /\ Known(NoAttempt) /\ NoAttempt \in AttemptRows
    BY <1>1, <1>2, <1>4, <1>6, NothingOK DEF Known
  <1>10. /\ \A v \in 1..made : seen[v] \subseteq seen'[v]
         /\ \A f \in Place(r, o) : f \in PlaceOf(t) \/ InHistory(f) \/ f[2] > made
         /\ recorded' \subseteq recorded \cup Facts(o.edits)
         /\ recorded' \ recorded \subseteq PlaceOf(t) /\ r.phase # "reading"
         /\ \A f \in Facts(outbox[t].edits) \cap recorded' :
               InHistory(f) \/ f \in Facts(o.edits)
    BY <1>1, <1>2, <1>6, <1>7
  <1>11. /\ raced \subseteq raced' \cup Facts(o.edits)
         /\ \/ LockIsFree
            \/ raced \subseteq raced' /\ Facts(o.edits) \subseteq raced'
    BY <1>6
  <1>12. UNCHANGED <<history, receipts>>
    BY <1>6
  <1> QED BY <1>4, <1>7, <1>8, <1>9, <1>10, <1>11, <1>12, MoveKeeps

\* The row and the record of a step that keeps what it cannot change.
LEMMA PreserveKeeps ==
    ASSUME EditorInv, NEW t \in Tabs, NEW status \in {"dirty", "conflict"},
           Saving(t), LockIsFree, preserveWithoutAttempt(t, status),
           UNCHANGED <<history, receipts, made, keys, seen>>, requests' \subseteq requests
    PROVE  EditorInv'
  <1>1. /\ RowTypes /\ TabOK(tab[t], outbox[t]) /\ EditorReady(t) /\ tab[t].conflicts = {}
        /\ tab[t].phase = "ready" /\ tab[t].listed = {}
    BY DEF EditorInv, ScopesOK, Saving, EditorReady, TabOK, ConflictsOK, PhaseOK
  <1>2. tab[t] \in TabRows /\ changedFields(t) \in SUBSET Edits /\ tab[t].persisted \in Nat
    BY <1>1, RowFields, ChangedOK DEF TabOK, WorkOK
  <1>3. PICK r \in TabRows :
           /\ r = [tab[t] EXCEPT !.status = status, !.attempt = NoAttempt]
           /\ tab' = [tab EXCEPT ![t] = r]
    <2>1. [tab[t] EXCEPT !.status = status, !.attempt = NoAttempt] \in TabRows
      BY <1>2, NothingOK DEF TabRows
    <2>2. tab' = [tab EXCEPT ![t] = [tab[t] EXCEPT !.status = status, !.attempt = NoAttempt]]
      BY <1>1, <1>2 DEF preserveWithoutAttempt, RowTypes, TabRows
    <2> QED BY <2>1, <2>2
  <1>4. /\ r.status = status /\ r.attempt = NoAttempt /\ r.phase = "ready"
        /\ r.working = tab[t].working /\ r.persisted = tab[t].persisted
        /\ r.conflicts = {} /\ r.listed = {} /\ r.pending = tab[t].pending
    BY <1>1, <1>2, <1>3 DEF TabRows
  <1>5. PICK o \in RecordRows :
           /\ outbox' = [outbox EXCEPT ![t] = o] /\ o.edits = changedFields(t)
           /\ o.attempt = NoAttempt /\ o.base = tab[t].persisted
    <2> DEFINE n == [base |-> tab[t].persisted, edits |-> changedFields(t),
                     attempt |-> NoAttempt]
    <2>1. n \in RecordRows
      BY <1>2, NothingOK DEF RecordRows
    <2> QED BY <2>1 DEF preserveWithoutAttempt
  <1>6. /\ recorded' = recorded \cup Facts(o.edits) /\ raced' = raced \ Facts(o.edits)
        /\ UNCHANGED <<history, receipts>>
    BY <1>5 DEF preserveWithoutAttempt
  <1>7. /\ TabOK(r, o)' /\ RecordOK(o)'
        /\ Facts(o.edits) \subseteq PlaceOf(t) /\ Place(r, o) \subseteq PlaceOf(t)
        /\ \A f \in Facts(outbox[t].edits) \cap recorded :
              InHistory(f) \/ f \in Facts(o.edits)
    BY <1>1, <1>4, <1>5, RecordedChanges
  <1>8. /\ made' \in made..MaxEdits
        /\ keys' \in keys..MaxAttempts /\ seen' \in [1..MaxEdits -> SUBSET Nat]
        /\ requests' \subseteq AttemptRows \ {NoAttempt}
        /\ \A v \in 1..made : seen[v] \subseteq seen'[v]
    BY <1>1, EditorAssumption DEF RowTypes
  <1>9. /\ \A a \in requests' \cup {r.attempt, o.attempt} : Known(a) \/ a = NoAttempt
        /\ Known(NoAttempt) /\ NoAttempt \in AttemptRows
    BY <1>4, <1>5, NothingOK DEF Known
  <1>10. /\ \A f \in Place(r, o) : f \in PlaceOf(t) \/ InHistory(f) \/ f[2] > made
         /\ recorded' \subseteq recorded \cup Facts(o.edits)
         /\ recorded' \ recorded \subseteq PlaceOf(t) /\ r.phase # "reading"
         /\ raced \subseteq raced' \cup Facts(o.edits)
         /\ \A f \in Facts(outbox[t].edits) \cap recorded' :
               InHistory(f) \/ f \in Facts(o.edits)
    BY <1>4, <1>6, <1>7
  <1> QED BY <1>3, <1>5, <1>6, <1>7, <1>8, <1>9, <1>10, MoveKeeps

LEMMA RevisionConflictKeeps ==
    ASSUME EditorInv, NEW t \in Tabs, revisionConflict(t) PROVE EditorInv'
  BY PreserveKeeps DEF revisionConflict, serverVars

LEMMA FieldsInvalidKeeps ==
    ASSUME EditorInv, NEW t \in Tabs, fieldsInvalid(t) PROVE EditorInv'
  <1>1. requests' \subseteq requests
    BY DEF fieldsInvalid
  <1> QED BY <1>1, PreserveKeeps DEF fieldsInvalid

\* The attempt of a save is one that was made for these edits, or a new one.
LEMMA AttemptOfSave ==
    ASSUME EditorInv, NEW t \in Tabs, Unlocked(t), AttemptOf(t, keys + 1).key <= MaxAttempts,
           UNCHANGED <<history, receipts, made, seen>>,
           keys' = Max({keys, AttemptOf(t, keys + 1).key})
    PROVE  /\ AttemptOf(t, keys + 1) \in AttemptRows \ {NoAttempt}
           /\ AttemptOf(t, keys + 1).base = tab[t].persisted
           /\ AttemptOf(t, keys + 1).edits = changedFields(t)
           /\ keys' \in keys..MaxAttempts
           /\ \/ Known(AttemptOf(t, keys + 1))
              \/ /\ AttemptOf(t, keys + 1).key = keys + 1
                 /\ \A x \in AttemptRows : x = AttemptOf(t, keys + 1) => AttemptOK(x)'
  <1>1. /\ RowTypes /\ WorkOK(tab[t]) /\ keys \in Nat /\ keys <= MaxAttempts
        /\ MaxAttempts \in Nat /\ tab[t].persisted \in 1..Head1 /\ Head1 \in Nat
    BY EditorAssumption DEF EditorInv, ScopesOK, RowTypes, TabOK, WorkOK, Head1
  <1>2. CASE tab[t].attempt # NoAttempt
    <2>1. AttemptOf(t, keys + 1) = tab[t].attempt /\ tab[t].attempt \in AttemptRows
      BY <1>1, <1>2, RowFields DEF AttemptOf
    <2>2. tab[t].attempt.base = tab[t].persisted /\ tab[t].attempt.edits = changedFields(t)
      BY <1>1, <1>2, ChangedOK DEF WorkOK
    <2>3. Known(tab[t].attempt)
      BY DEF Known
    <2>4. tab[t].attempt.key \in 1..keys
      BY <1>2, <2>1, <2>3 DEF EditorInv, AttemptsOK, AttemptOK
    <2>5. keys' = keys
      BY <1>1, <2>1, <2>4, LargerOf
    <2> QED BY <1>1, <1>2, <2>1, <2>2, <2>3, <2>5
  <1>3. CASE tab[t].attempt = NoAttempt
    <2> DEFINE n == [key |-> keys + 1, base |-> tab[t].persisted, edits |-> changedFields(t)]
    <2>1. AttemptOf(t, keys + 1) = n
      BY <1>3 DEF AttemptOf
    <2>2. /\ changedFields(t) \in SUBSET Edits /\ EditsOK(changedFields(t))
          /\ \A e \in changedFields(t) :
                e.base = history[tab[t].persisted][e.path] /\ e.value # e.base
      BY <1>1, ChangedOK
    <2>3. n \in AttemptRows /\ n # NoAttempt
      BY <1>1, <2>2 DEF AttemptRows, NoAttempt, None
    <2>4. keys' = keys + 1 /\ keys + 1 <= MaxAttempts
      BY <1>1, <2>1, LargerOf
    <2>5. receipts[keys + 1] = 0
      BY <1>1, <2>4 DEF EditorInv, ServerOK
    <2>6. ASSUME NEW x \in AttemptRows, x = n PROVE AttemptOK(x)'
      <3>1. x.key = keys + 1 /\ x.base = tab[t].persisted /\ x.edits = changedFields(t)
        BY <2>6
      <3>2. EditsOK(x.edits)'
        BY <2>2, <3>1 DEF EditsOK
      <3>3. x.key \in 1..keys' /\ x.base \in 1..Head1'
        BY <1>1, <2>4, <3>1 DEF Head1
      <3>4. \A e \in x.edits : e.base = history'[x.base][e.path] /\ e.value # e.base
        BY <2>2, <3>1
      <3> QED BY <2>5, <3>1, <3>2, <3>3, <3>4 DEF AttemptOK
    <2> QED BY <1>1, <2>1, <2>3, <2>4, <2>6
  <1> QED BY <1>2, <1>3

LEMMA SaveKeeps ==
    ASSUME EditorInv, NEW t \in Tabs, NEW recordable \in BOOLEAN, save(t, recordable)
    PROVE  EditorInv'
  <1>1. /\ RowTypes /\ TabOK(tab[t], outbox[t]) /\ EditorReady(t) /\ tab[t].conflicts = {}
        /\ tab[t].phase = "ready" /\ tab[t].listed = {} /\ LockIsFree /\ Unlocked(t)
    BY DEF EditorInv, ScopesOK, save, Unlocked, EditorReady, TabOK, PhaseOK
  <1>2. /\ UNCHANGED <<history, receipts, made, seen>>
        /\ keys' = Max({keys, AttemptOf(t, keys + 1).key})
        /\ AttemptOf(t, keys + 1).key <= MaxAttempts
    BY DEF save
  <1>3. PICK x \in AttemptRows \ {NoAttempt} :
           /\ x = AttemptOf(t, keys + 1) /\ x.base = tab[t].persisted
           /\ x.edits = changedFields(t) /\ keys' \in keys..MaxAttempts
           /\ (Known(x) \/ (x.key = keys + 1 /\ AttemptOK(x)'))
    BY <1>1, <1>2, AttemptOfSave
  <1>4. tab[t] \in TabRows /\ changedFields(t) \in SUBSET Edits /\ tab[t].persisted \in Nat
    BY <1>1, RowFields, ChangedOK DEF TabOK, WorkOK
  <1>5. PICK r \in TabRows :
           /\ r = [tab[t] EXCEPT !.status = "saving", !.attempt = x]
           /\ tab' = [tab EXCEPT ![t] = r]
    <2>1. [tab[t] EXCEPT !.status = "saving", !.attempt = x] \in TabRows
      BY <1>3, <1>4 DEF TabRows
    <2>2. tab' = [tab EXCEPT ![t] = [tab[t] EXCEPT !.status = "saving", !.attempt = x]]
      BY <1>1, <1>3, <1>4 DEF save, RowTypes, TabRows
    <2> QED BY <2>1, <2>2
  <1>6. /\ r.status = "saving" /\ r.attempt = x /\ r.phase = "ready"
        /\ r.working = tab[t].working /\ r.persisted = tab[t].persisted
        /\ r.conflicts = {} /\ r.listed = {} /\ r.pending = tab[t].pending
    BY <1>1, <1>3, <1>4, <1>5 DEF TabRows
  <1>7. PICK n \in RecordRows :
           n = [base |-> tab[t].persisted, edits |-> changedFields(t), attempt |-> x]
    BY <1>3, <1>4 DEF RecordRows
  <1>8. /\ TabOK(r, n)' /\ RecordOK(n)'
        /\ Facts(n.edits) \subseteq PlaceOf(t) /\ Place(r, n) \subseteq PlaceOf(t)
        /\ \A f \in Facts(outbox[t].edits) \cap recorded :
              InHistory(f) \/ f \in Facts(n.edits)
    BY <1>1, <1>2, <1>3, <1>6, <1>7, RecordedChanges
  <1>9. PICK o \in RecordRows :
           /\ outbox' = [outbox EXCEPT ![t] = o]
           /\ \/ /\ o = n /\ recorded' = recorded \cup Facts(n.edits)
                 /\ raced' = raced \ Facts(n.edits)
              \/ o = outbox[t] /\ UNCHANGED <<recorded, raced>>
    <2>1. CASE recordable
      BY <1>3, <1>7, <2>1 DEF save
    <2>2. CASE ~ recordable
      BY <1>1, <2>2, RowFields DEF save, RowTypes
    <2> QED BY <2>1, <2>2
  <1>10. TabOK(r, o)'
    <2>1. CASE o = n
      BY <1>8, <2>1
    <2>2. CASE o = outbox[t] /\ recorded' = recorded
      <3>1. PhaseOK(r, o)' /\ ConflictsOK(r, o)'
        BY <1>3, <1>6 DEF PhaseOK, ConflictsOK
      <3>2. ScreenOK(r, o)'
        BY <1>1, <1>2, <1>6, <2>2 DEF TabOK, ScreenOK, InHistory, Head1
      <3> QED BY <1>8, <3>1, <3>2 DEF TabOK
    <2> QED BY <1>9, <2>1, <2>2
  <1>11. /\ Place(r, o) \subseteq PlaceOf(t)
         /\ \A f \in Facts(outbox[t].edits) \cap recorded' : InHistory(f) \/ f \in Facts(o.edits)
         /\ o = outbox[t] \/ RecordOK(o)'
         /\ recorded' \subseteq recorded \cup Facts(o.edits)
         /\ recorded' \ recorded \subseteq PlaceOf(t)
         /\ raced \subseteq raced' \cup Facts(o.edits)
    <2>1. CASE o = outbox[t] /\ UNCHANGED <<recorded, raced>>
      <3>1. Place(r, o) = PlaceOf(t)
        BY <1>6, <2>1 DEF Place, PlaceOf
      <3> QED BY <2>1, <3>1
    <2>2. CASE o = n /\ recorded' = recorded \cup Facts(n.edits) /\ raced' = raced \ Facts(n.edits)
      BY <1>8, <2>2
    <2> QED BY <1>9, <2>1, <2>2
  <1>12. \A a \in requests' \cup {r.attempt, o.attempt} : Known(a) \/ a = x
    <2>1. requests' = requests \cup {x}
      BY <1>3 DEF save
    <2>2. o.attempt = x \/ o.attempt = outbox[t].attempt
      BY <1>7, <1>9
    <2> QED BY <1>6, <2>1, <2>2 DEF Known
  <1>13. /\ made' \in made..MaxEdits /\ seen' \in [1..MaxEdits -> SUBSET Nat]
         /\ requests' \subseteq AttemptRows \ {NoAttempt}
         /\ \A v \in 1..made : seen[v] \subseteq seen'[v]
    BY <1>1, <1>2, <1>3, EditorAssumption DEF RowTypes, save
  <1>14. /\ r.phase # "reading" /\ UNCHANGED <<history, receipts>>
         /\ \A f \in Place(r, o) : f \in PlaceOf(t) \/ InHistory(f) \/ f[2] > made
    BY <1>2, <1>6, <1>11
  <1>15. x \in AttemptRows /\ keys' \in keys..MaxAttempts
         /\ (Known(x) \/ (x.key = keys + 1 /\ AttemptOK(x)'))
    BY <1>3
  <1> QED BY <1>1, <1>5, <1>9, <1>10, <1>11, <1>12, <1>13, <1>14, <1>15, MoveKeeps

\* A step that leaves the outbox, and what was recorded, alone.
LEMMA RestKeeps ==
    ASSUME EditorInv, NEW t \in Tabs, NEW r \in TabRows,
           tab' = [tab EXCEPT ![t] = r],
           UNCHANGED <<serverVars, outbox, made, keys, recorded, raced, seen>>,
           r.phase # "reading", TabOK(r, outbox[t])', r.attempt \in {NoAttempt, tab[t].attempt},
           \A p \in Paths : r.working[p] = tab[t].working[p] \/ InHistory(<<p, r.working[p]>>)
    PROVE  EditorInv'
  <1>1. RowTypes
    BY DEF EditorInv
  <1>2. PICK o \in RecordRows : o = outbox[t]
    BY <1>1, RowFields
  <1>3. /\ outbox' = [outbox EXCEPT ![t] = o] /\ UNCHANGED <<history, receipts>>
        /\ made' \in made..MaxEdits /\ keys' \in keys..MaxAttempts
        /\ seen' \in [1..MaxEdits -> SUBSET Nat] /\ \A v \in 1..made : seen[v] \subseteq seen'[v]
        /\ requests' \subseteq AttemptRows \ {NoAttempt}
    BY <1>1, <1>2, EditorAssumption DEF RowTypes, serverVars
  <1>4. TabOK(r, o)'
    BY <1>2 DEF TabOK, PhaseOK, ConflictsOK, ScreenOK
  <1>5. /\ \A a \in requests' \cup {r.attempt, o.attempt} : Known(a) \/ a = NoAttempt
        /\ Known(NoAttempt) /\ NoAttempt \in AttemptRows
    BY <1>2, NothingOK DEF Known, serverVars
  <1>6. \A f \in Place(r, o) : f \in PlaceOf(t) \/ InHistory(f) \/ f[2] > made
    BY <1>2 DEF Place, PlaceOf
  <1>7. recorded' = recorded /\ raced' = raced
    OBVIOUS
  <1> QED BY <1>2, <1>3, <1>4, <1>5, <1>6, <1>7, MoveKeeps

LEMMA SaveFailsKeeps ==
    ASSUME EditorInv, NEW t \in Tabs, saveFails(t) PROVE EditorInv'
  <1>1. /\ RowTypes /\ TabOK(tab[t], outbox[t]) /\ tab[t].phase = "ready"
        /\ tab[t].conflicts = {} /\ tab[t].listed = {} /\ tab[t].attempt # NoAttempt
    BY DEF EditorInv, ScopesOK, saveFails, Saving, EditorReady, TabOK, PhaseOK, ConflictsOK
  <1>2. tab[t] \in TabRows
    BY <1>1, RowFields
  <1>3. PICK r \in TabRows : r = [tab[t] EXCEPT !.status = "dirty"] /\ tab' = [tab EXCEPT ![t] = r]
    <2>1. [tab[t] EXCEPT !.status = "dirty"] \in TabRows
      BY <1>2 DEF TabRows
    <2>2. tab' = [tab EXCEPT ![t] = [tab[t] EXCEPT !.status = "dirty"]]
      BY <1>1, <1>2 DEF saveFails, RowTypes, TabRows
    <2> QED BY <2>1, <2>2
  <1>4. /\ r.status = "dirty" /\ r.attempt = tab[t].attempt /\ r.phase = "ready"
        /\ r.working = tab[t].working /\ r.persisted = tab[t].persisted
        /\ r.conflicts = {} /\ r.listed = {} /\ r.pending = tab[t].pending
    BY <1>1, <1>2, <1>3 DEF TabRows
  <1>5. UNCHANGED <<serverVars, outbox, made, keys, recorded, raced, seen>>
    BY DEF saveFails
  <1>6. PICK s \in TabRows : s = tab[t]
    BY <1>2
  <1>7. WorkOK(r)'
    BY <1>1, <1>4, <1>5, <1>6, WorkStays DEF TabOK, WorkOK, serverVars
  <1>8. PhaseOK(r, outbox[t])' /\ ConflictsOK(r, outbox[t])' /\ ScreenOK(r, outbox[t])'
    BY <1>1, <1>4, <1>5 DEF PhaseOK, ConflictsOK, ScreenOK, TabOK, InHistory, Head1, serverVars
  <1> QED BY <1>3, <1>4, <1>5, <1>7, <1>8, RestKeeps DEF TabOK

\* A document with nothing but a revision, opened or closed.
LEMMA BlankOK ==
    ASSUME EditorInv, NEW t \in Tabs, NEW r \in TabRows, NEW revision \in 1..Head1,
           UNCHANGED <<serverVars, outbox, made, keys, recorded, raced, seen>>,
           r.phase \in {"loading", "closed"}, r.persisted = revision,
           r.working = history[revision], r.status = "saved", r.attempt = NoAttempt,
           r.listed = {}, r.pending = {}, r.conflicts = {},
           r.phase = "loading" => outbox[t] = NoRecord,
           tab' = [tab EXCEPT ![t] = r]
    PROVE  EditorInv'
  <1>1. RowTypes /\ ServerOK
    BY DEF EditorInv
  <1>2. \A p \in Paths : InHistory(<<p, r.working[p]>>)
    BY <1>1, RevisionIsHistory
  <1>3. WorkOK(r)'
    BY <1>1 DEF WorkOK, ServerOK, serverVars, Head1
  <1>4. PhaseOK(r, outbox[t])' /\ ConflictsOK(r, outbox[t])' /\ ScreenOK(r, outbox[t])'
    BY DEF PhaseOK, ConflictsOK, ScreenOK
  <1> QED BY <1>2, <1>3, <1>4, RestKeeps DEF TabOK

LEMMA OpenKeeps ==
    ASSUME EditorInv, NEW t \in Tabs, open(t) PROVE EditorInv'
  <1>1. /\ RowTypes /\ Head1 \in 1..Head1 /\ history[Head1] \in [Paths -> Nat] /\ Head1 \in Nat
    BY DEF EditorInv, RowTypes, Head1
  <1> DEFINE n == [NewTab EXCEPT !.phase = "loading", !.persisted = Head1,
                                 !.working = history[Head1]]
  <1>2. /\ n.phase = "loading" /\ n.persisted = Head1 /\ n.working = history[Head1]
        /\ n.status = "saved" /\ n.attempt = NoAttempt /\ n.listed = {} /\ n.pending = {}
        /\ n.conflicts = {} /\ n \in TabRows
    BY <1>1, NothingOK DEF NewTab, TabRows
  <1>3. PICK r \in TabRows : r = n
    BY <1>2
  <1>4. tab' = [tab EXCEPT ![t] = r] /\ outbox[t] = NoRecord
    BY <1>3 DEF open
  <1>5. UNCHANGED <<serverVars, outbox, made, keys, recorded, raced, seen>>
    BY DEF open
  <1>6. PICK revision \in 1..Head1 : revision = Head1
    BY <1>1
  <1> QED BY <1>2, <1>3, <1>4, <1>5, <1>6, BlankOK

LEMMA CloseKeeps ==
    ASSUME EditorInv, NEW t \in Tabs, close(t) PROVE EditorInv'
  <1>1. /\ RowTypes /\ 1 \in 1..Head1 /\ history[1] = Original /\ Original \in [Paths -> Nat]
    BY DEF EditorInv, RowTypes, Head1, ServerOK, Original
  <1> DEFINE n == [NewTab EXCEPT !.phase = "closed"]
  <1>2. /\ n.phase = "closed" /\ n.persisted = 1 /\ n.working = history[1]
        /\ n.status = "saved" /\ n.attempt = NoAttempt /\ n.listed = {} /\ n.pending = {}
        /\ n.conflicts = {} /\ n \in TabRows
    BY <1>1, NothingOK DEF NewTab, TabRows
  <1>3. PICK r \in TabRows : r = n
    BY <1>2
  <1>4. tab' = [tab EXCEPT ![t] = r]
    BY <1>3 DEF close
  <1>5. UNCHANGED <<serverVars, outbox, made, keys, recorded, raced, seen>>
    BY DEF close
  <1> QED BY <1>1, <1>2, <1>3, <1>4, <1>5, BlankOK

\* What a save wrote is what its document showed.
LEMMA SavedIsHistory ==
    ASSUME EditorInv, NEW t \in Tabs, Saving(t), receipts[tab[t].attempt.key] # 0,
           NEW f \in Facts(changedFields(t))
    PROVE  InHistory(f)
  <1> DEFINE a == tab[t].attempt
  <1>1. /\ RowTypes /\ WorkOK(tab[t]) /\ a # NoAttempt /\ a \in AttemptRows /\ Known(a)
    BY RowFields DEF EditorInv, ScopesOK, TabOK, PhaseOK, Saving, Known
  <1>2. a.edits = changedFields(t) /\ AttemptOK(a)
    BY <1>1, ChangedOK DEF WorkOK, EditorInv, AttemptsOK
  <1>3. a.key \in 1..MaxAttempts /\ receipts[a.key] \in 1..Head1
    <2>1. keys \in Nat /\ keys <= MaxAttempts /\ MaxAttempts \in Nat /\ a.key \in 1..keys
      BY <1>1, <1>2, EditorAssumption DEF RowTypes, AttemptOK
    <2>2. receipts[a.key] \in Nat /\ receipts[a.key] <= Head1
      BY <1>1, <2>1 DEF RowTypes, EditorInv, ServerOK
    <2> QED BY <1>1, <2>1, <2>2 DEF RowTypes, Head1
  <1>4. PICK e \in a.edits : f = <<e.path, e.value>>
    BY <1>2 DEF Facts
  <1>5. e.path \in Paths /\ OnePerPath(a.edits)
    BY <1>1, <1>2, <1>4, ChangedOK DEF Edits, EditsOK
  <1>6. (CHOOSE d \in a.edits : d.path = e.path) = e
    BY <1>4, <1>5 DEF OnePerPath
  <1>7. history[receipts[a.key]][e.path] = e.value
    BY <1>1, <1>2, <1>4, <1>5, <1>6 DEF AttemptOK, Result
  <1> QED BY <1>3, <1>4, <1>7 DEF InHistory

LEMMA AcknowledgeKeeps ==
    ASSUME EditorInv, NEW t \in Tabs, acknowledge(t) PROVE EditorInv'
  <1>1. /\ RowTypes /\ ServerOK /\ TabOK(tab[t], outbox[t]) /\ tab[t].phase = "ready"
        /\ tab[t].conflicts = {} /\ tab[t].pending \in SUBSET Edits /\ tab[t].listed = {}
        /\ LockIsFree /\ Saving(t) /\ EditorReady(t) /\ tab[t] \in TabRows
        /\ tab[t].attempt # NoAttempt /\ tab[t].attempt \in AttemptRows
    BY RowFields DEF EditorInv, ScopesOK, acknowledge, Saving, EditorReady, TabOK, PhaseOK,
                     ConflictsOK, TabRows
  <1>2. PICK revision \in 1..Head1 : revision = receipts[tab[t].attempt.key] /\ revision # 0
    <2>1. tab[t].attempt.key \in 1..keys
      BY <1>1 DEF EditorInv, AttemptsOK, AttemptOK, Known
    <2>2. keys \in Nat /\ keys <= MaxAttempts /\ MaxAttempts \in Nat
      BY <1>1, EditorAssumption DEF RowTypes
    <2>3. receipts[tab[t].attempt.key] \in Nat /\ receipts[tab[t].attempt.key] <= Head1
      BY <1>1, <2>1, <2>2 DEF RowTypes, ServerOK
    <2> QED BY <1>1, <2>3 DEF acknowledge, RowTypes, Head1
  <1>3. history[revision] \in [Paths -> Nat] /\ revision \in Nat /\ Head1 \in Nat
    BY <1>1 DEF RowTypes, Head1
  <1>4. PICK r \in TabRows :
           /\ r = [tab[t] EXCEPT !.persisted = revision, !.working = history[revision],
                                 !.status = "saved", !.attempt = NoAttempt]
           /\ tab' = [tab EXCEPT ![t] = r]
    <2> DEFINE n == [tab[t] EXCEPT !.persisted = revision, !.working = history[revision],
                                   !.status = "saved", !.attempt = NoAttempt]
    <2>1. n \in TabRows
      BY <1>1, <1>3, NothingOK DEF TabRows
    <2>2. tab' = [tab EXCEPT ![t] = n]
      BY <1>1, <1>2 DEF acknowledge, RowTypes, TabRows
    <2> QED BY <2>1, <2>2
  <1>5. /\ r.status = "saved" /\ r.attempt = NoAttempt /\ r.phase = "ready"
        /\ r.working = history[revision] /\ r.persisted = revision
        /\ r.conflicts = {} /\ r.listed = {}
    BY <1>1, <1>4 DEF TabRows
  <1>6. PICK o \in RecordRows : o = NoRecord /\ o.edits = {} /\ o.attempt = NoAttempt
    BY NothingOK
  <1>7. UNCHANGED <<serverVars, made, keys, recorded, raced, seen>>
        /\ outbox' = [outbox EXCEPT ![t] = o]
    BY <1>6 DEF acknowledge
  <1>8. TabOK(r, o)'
    <2>1. WorkOK(r)'
      BY <1>1, <1>3, <1>5, <1>7 DEF WorkOK, ServerOK, serverVars, Head1
    <2>2. PhaseOK(r, o)' /\ ConflictsOK(r, o)' /\ ScreenOK(r, o)'
      BY <1>5, <1>6 DEF PhaseOK, ConflictsOK, ScreenOK
    <2> QED BY <2>1, <2>2 DEF TabOK
  <1>9. \A f \in Place(r, o) : InHistory(f)
    <2>1. \A p \in Paths : InHistory(<<p, r.working[p]>>)
      BY <1>1, <1>5, RevisionIsHistory
    <2> QED BY <1>6, <2>1 DEF Place, Facts
  <1>10. \A f \in Facts(outbox[t].edits) \cap recorded' : InHistory(f)
    BY <1>1, <1>2, <1>7, ScreenCovers, SavedIsHistory
  <1>11. /\ \A a \in requests' \cup {r.attempt, o.attempt} : Known(a) \/ a = NoAttempt
         /\ Known(NoAttempt) /\ NoAttempt \in AttemptRows
    BY <1>5, <1>6, <1>7, NothingOK DEF Known, serverVars
  <1>12. /\ UNCHANGED <<history, receipts>>
         /\ made' \in made..MaxEdits /\ keys' \in keys..MaxAttempts
         /\ seen' \in [1..MaxEdits -> SUBSET Nat] /\ \A v \in 1..made : seen[v] \subseteq seen'[v]
         /\ requests' \subseteq AttemptRows \ {NoAttempt}
    BY <1>1, <1>7, EditorAssumption DEF RowTypes, serverVars
  <1>13. recorded' = recorded /\ raced' = raced /\ tab' = [tab EXCEPT ![t] = r]
         /\ r.phase # "reading"
    BY <1>4, <1>5, <1>7
  <1> QED BY <1>1, <1>6, <1>7, <1>8, <1>9, <1>10, <1>11, <1>12, <1>13, MoveKeeps

\* The owner decides a conflict: the record keeps the edits not given up.
LEMMA ResolveKeeps ==
    ASSUME EditorInv, NEW t \in Tabs, NEW e \in tab[t].conflicts,
           NEW resolution \in {"latest", "mine"}, resolveRecoveryConflict(t, e, resolution)
    PROVE  EditorInv'
  <1> DEFINE remaining == tab[t].conflicts \ {e}
             pending == IF resolution = "mine" THEN tab[t].pending ELSE tab[t].pending \ {e}
             w == IF resolution = "mine" THEN [tab[t].working EXCEPT ![e.path] = e.value]
                  ELSE tab[t].working
             left == IF remaining = {} THEN {} ELSE pending
             n == [tab[t] EXCEPT !.working = w, !.status = StatusOf(t, w),
                      !.attempt = NoAttempt, !.conflicts = remaining, !.pending = left]
  <1>1. /\ RowTypes /\ ServerOK /\ WorkOK(tab[t]) /\ PhaseOK(tab[t], outbox[t])
        /\ ConflictsOK(tab[t], outbox[t]) /\ ScreenOK(tab[t], outbox[t])
        /\ RecordOK(outbox[t]) /\ tab[t].conflicts # {} /\ tab \in [Tabs -> TabRows]
        /\ made \in Nat /\ made <= MaxEdits /\ LockIsFree /\ tab[t].phase = "ready"
    BY DEF EditorInv, ScopesOK, TabOK, RowTypes, resolveRecoveryConflict, EditorReady
  <1>2. /\ tab[t].conflicts \subseteq tab[t].pending /\ outbox[t].edits = tab[t].pending
        /\ tab[t].attempt = NoAttempt /\ tab[t].status \in {"saved", "dirty"}
        /\ \A x \in tab[t].pending \ tab[t].conflicts : tab[t].working[x.path] = x.value
        /\ EditsOK(tab[t].pending) /\ tab[t].listed = {}
    BY <1>1 DEF ConflictsOK, RecordOK, PhaseOK
  <1>3. /\ tab[t] \in TabRows /\ tab[t].pending \in SUBSET Edits
        /\ tab[t].working \in [Paths -> Nat] /\ tab[t].persisted \in 1..Head1
        /\ tab[t].persisted \in Nat /\ tab[t].conflicts \in SUBSET Edits
    BY <1>1, RowFields DEF TabRows, WorkOK
  <1>4. /\ e \in tab[t].pending /\ e \in Edits /\ e.path \in Paths /\ e.value \in Nat
        /\ e.value \in 1..made /\ e.value <= MaxEdits /\ e.value # 0
    <2>1. e \in tab[t].pending /\ e \in Edits
      BY <1>2, <1>3
    <2>2. e.value \in 1..made
      BY <1>2, <2>1 DEF EditsOK
    <2> QED BY <1>1, <2>1, <2>2, EditorAssumption DEF Edits
  <1>5. w \in [Paths -> Nat] /\ pending \in SUBSET Edits /\ remaining \in SUBSET Edits
        /\ pending \subseteq tab[t].pending
    BY <1>3, <1>4
  <1>6. PICK r \in TabRows : r = n /\ tab' = [tab EXCEPT ![t] = r]
    <2> DEFINE a == IF resolution = "mine" THEN NoAttempt ELSE tab[t].attempt
    <2>1. tab' = [tab EXCEPT ![t] = n]
      <3>1. a = NoAttempt
        BY <1>2
      <3>2. tab' = [tab EXCEPT ![t] = [tab[t] EXCEPT !.working = w, !.status = StatusOf(t, w),
                        !.attempt = a, !.conflicts = remaining, !.pending = left]]
        BY DEF resolveRecoveryConflict
      <3> HIDE DEF a, w, remaining, left
      <3> QED BY <3>1, <3>2
    <2>2. left \in SUBSET Edits
      BY <1>5
    <2>3. StatusOf(t, w) \in {"saved", "dirty"}
      BY DEF StatusOf
    <2> HIDE DEF w, remaining, left
    <2>4. n \in TabRows
      BY <1>3, <1>5, <2>2, <2>3, NothingOK DEF TabRows
    <2> HIDE DEF n
    <2> QED BY <2>1, <2>4
  <1>7. /\ r.working = w /\ r.status = StatusOf(t, w) /\ r.attempt = NoAttempt
        /\ r.persisted = tab[t].persisted /\ r.phase = "ready" /\ r.listed = {}
        /\ r.conflicts = remaining /\ r.pending = left
    <2> HIDE DEF w, remaining, left
    <2> QED BY <1>1, <1>2, <1>3, <1>6 DEF TabRows
  <1>8. PICK o \in RecordRows :
           /\ outbox' = [outbox EXCEPT ![t] = o] /\ o.edits = pending
           /\ o.attempt = NoAttempt /\ (o = NoRecord \/ o.base = tab[t].persisted)
    <2> DEFINE q == [base |-> tab[t].persisted, edits |-> pending, attempt |-> NoAttempt]
    <2>1. q \in RecordRows
      BY <1>3, <1>5, NothingOK DEF RecordRows
    <2>2. outbox' = [outbox EXCEPT ![t] = IF pending = {} THEN NoRecord ELSE q]
      BY DEF resolveRecoveryConflict
    <2> HIDE DEF pending
    <2>3. CASE pending = {}
      BY <2>2, <2>3, NothingOK
    <2>4. CASE pending # {}
      BY <2>1, <2>2, <2>4
    <2> QED BY <2>3, <2>4
  <1>9. /\ UNCHANGED <<history, receipts, requests, made, keys, raced>>
        /\ IF resolution = "mine"
           THEN seen' = [seen EXCEPT ![e.value] = @ \cup {Stored(t, e.path)}] /\ recorded' = recorded
           ELSE recorded' = recorded \ {<<e.path, e.value>>} /\ seen' = seen
    BY DEF resolveRecoveryConflict, serverVars
  <1>10. Stored(t, e.path) \in Nat /\ Stored(t, e.path) = history[r.persisted][e.path]
    BY <1>1, <1>3, <1>4, <1>7 DEF Stored, RowTypes, Head1
  <1>11. /\ seen' \in [1..MaxEdits -> SUBSET Nat]
         /\ \A v \in 1..made : seen[v] \subseteq seen'[v]
         /\ resolution = "mine" => Stored(t, e.path) \in seen'[e.value]
    <2>1. seen \in [1..MaxEdits -> SUBSET Nat] /\ e.value \in 1..MaxEdits
          /\ \A v \in 1..made : v \in 1..MaxEdits
      BY <1>1, <1>4, EditorAssumption DEF RowTypes
    <2>2. CASE resolution = "mine"
      BY <1>9, <1>10, <2>1, <2>2
    <2>3. CASE resolution # "mine"
      BY <1>9, <2>1, <2>3
    <2> QED BY <2>2, <2>3
  <1>12. WorkOK(r)'
    <2>1. \A p \in Paths : r.working[p] <= made
      BY <1>1, <1>3, <1>4, <1>7 DEF WorkOK
    <2>2. ASSUME NEW p \in Paths, r.working[p] # history[r.persisted][p]
          PROVE  r.working[p] # 0 /\ history[r.persisted][p] \in seen'[r.working[p]]
      <3>1. CASE resolution = "mine" /\ p = e.path
        BY <1>3, <1>4, <1>7, <1>10, <1>11, <3>1
      <3>2. CASE r.working[p] = tab[t].working[p]
        <4>1. r.working[p] # 0 /\ history[r.persisted][p] \in seen[r.working[p]]
              /\ r.working[p] \in 1..made
          BY <1>1, <1>3, <1>7, <2>2, <3>2 DEF WorkOK
        <4> QED BY <1>11, <4>1
      <3> QED BY <1>3, <1>7, <3>1, <3>2
    <2>3. r.status = "saved" => r.working = history[r.persisted]
      BY <1>7 DEF StatusOf
    <2> QED BY <1>3, <1>7, <1>9, <2>1, <2>2, <2>3 DEF WorkOK, Head1
  <1>13. \A x \in pending : r.working[x.path] = x.value \/ x \in r.conflicts
    <2> SUFFICES ASSUME NEW x \in pending, x \notin remaining PROVE r.working[x.path] = x.value
      BY <1>7
    <2>1. CASE x = e
      BY <1>3, <1>4, <1>7, <2>1
    <2>2. CASE x # e
      <3>1. x \in tab[t].pending \ tab[t].conflicts /\ x.path # e.path
        BY <1>2, <1>4, <1>5, <2>2 DEF EditsOK, OnePerPath
      <3> QED BY <1>2, <1>3, <1>7, <3>1
    <2> QED BY <2>1, <2>2
  <1>14. PhaseOK(r, o)' /\ ScreenOK(r, o)'
    BY <1>7, <1>8, <1>13 DEF PhaseOK, ScreenOK, StatusOf
  <1>15. ConflictsOK(r, o)'
    <2>1. remaining \subseteq pending
      BY <1>2
    <2> QED BY <1>7, <1>8, <1>13, <2>1 DEF ConflictsOK, StatusOf
  <1>16. RecordOK(o)'
    <2>1. \A x \in pending : x.value \in 1..made' /\ x.base \in seen'[x.value]
      BY <1>2, <1>5, <1>9, <1>11 DEF EditsOK
    <2>2. OnePerPath(pending)
      BY <1>2, <1>5 DEF EditsOK, OnePerPath
    <2>3. o.base <= Head1'
      BY <1>1, <1>3, <1>8, <1>9 DEF Head1, NoRecord, RowTypes
    <2> QED BY <1>8, <2>1, <2>2, <2>3 DEF RecordOK, EditsOK, OnePerPath
  <1>17. \A f \in Place(r, o) : f \in PlaceOf(t)
    <2>1. \A f \in Facts(o.edits) : f \in Facts(outbox[t].edits)
      BY <1>2, <1>5, <1>8 DEF Facts
    <2>2. \A p \in Paths : \/ r.working[p] = tab[t].working[p]
                           \/ <<p, r.working[p]>> = <<e.path, e.value>>
      BY <1>3, <1>4, <1>7
    <2>3. <<e.path, e.value>> \in Facts(outbox[t].edits)
      BY <1>2, <1>4 DEF Facts
    <2> QED BY <2>1, <2>2, <2>3 DEF Place, PlaceOf
  <1>18. \A f \in Facts(outbox[t].edits) \cap recorded' : f \in Facts(o.edits)
    BY <1>2, <1>8, <1>9 DEF Facts
  <1>19. /\ \A a \in requests' \cup {r.attempt, o.attempt} : Known(a) \/ a = NoAttempt
         /\ Known(NoAttempt) /\ NoAttempt \in AttemptRows
    BY <1>7, <1>8, <1>9, NothingOK DEF Known
  <1>20. /\ UNCHANGED <<history, receipts>>
         /\ made' \in made..MaxEdits /\ keys' \in keys..MaxAttempts
         /\ requests' \subseteq AttemptRows \ {NoAttempt}
    BY <1>1, <1>9, EditorAssumption DEF RowTypes
  <1>21. recorded' \subseteq recorded /\ raced' = raced
    BY <1>9
  <1> HIDE DEF n, w, pending, remaining, left
  <1>22. TabOK(r, o)' /\ r.phase # "reading"
    BY <1>7, <1>12, <1>14, <1>15 DEF TabOK
  <1> QED
    BY <1>1, <1>6, <1>8, <1>11, <1>16, <1>17, <1>18, <1>19, <1>20, <1>21, <1>22, MoveKeeps

\* A document lists the records while nobody else reads them.
LEMMA ListRecordsKeeps ==
    ASSUME EditorInv, NEW t \in Tabs, listRecords(t) PROVE EditorInv'
  <1> DEFINE L == {[scope |-> u, record |-> outbox[u]] : u \in {x \in Tabs : outbox[x] # NoRecord}}
             n == [tab[t] EXCEPT !.phase = "reading", !.listed = L]
  <1>1. /\ RowTypes /\ ServerOK /\ AttemptsOK /\ ScopesOK /\ OnePlace /\ ReadingOK
        /\ SettledEditSurvives /\ tab[t].phase = "loading" /\ LockIsFree
        /\ tab \in [Tabs -> TabRows] /\ outbox \in [Tabs -> RecordRows]
    BY DEF EditorInv, listRecords, RowTypes
  <1>2. tab[t] \in TabRows /\ outbox[t] = NoRecord /\ TabOK(tab[t], outbox[t])
    BY <1>1 DEF ScopesOK, TabOK, PhaseOK
  <1>3. L \in SUBSET Listings
    BY <1>1 DEF Listings
  <1>4. tab' = [tab EXCEPT ![t] = n]
    BY <1>1, <1>2 DEF listRecords, TabRows
  <1>5. UNCHANGED <<serverVars, outbox, made, keys, recorded, raced, seen>>
    BY DEF listRecords
  <1>6. PICK r \in TabRows :
           /\ r = tab'[t] /\ r.phase = "reading" /\ r.listed = L
           /\ r.persisted = tab[t].persisted /\ r.working = tab[t].working
           /\ r.status = tab[t].status /\ r.attempt = tab[t].attempt
           /\ r.pending = tab[t].pending /\ r.conflicts = tab[t].conflicts
    <2> HIDE DEF L
    <2>1. n \in TabRows
      BY <1>2, <1>3 DEF TabRows
    <2> QED BY <1>1, <1>2, <1>4, <2>1 DEF TabRows
  <1> HIDE DEF n
  <1>7. /\ tab' \in [Tabs -> TabRows] /\ \A u \in Tabs \ {t} : tab'[u] = tab[u]
        /\ tab'[t] \in TabRows
    <2>1. tab'[t] = n
      BY <1>1, <1>4
    <2> QED BY <1>1, <1>4, <1>6, <2>1
  <1>8. RowTypes'
    BY <1>1, <1>5, <1>7 DEF RowTypes, serverVars
  <1>9. ServerOK' /\ SettledEditSurvives'
    BY <1>1, <1>5 DEF ServerOK, SettledEditSurvives, Survives, Facts, serverVars, Head1
  <1>10. \A u \in Tabs : PlaceOf(u)' = PlaceOf(u)
    BY <1>5, <1>6, <1>7 DEF PlaceOf, Place, Facts
  <1>11. \A f : InHistory(f)' <=> InHistory(f)
    BY <1>5 DEF InHistory, Head1, serverVars
  <1>12. OnePlace'
    BY <1>1, <1>10, <1>11 DEF OnePlace
  <1>13. AttemptsOK'
    <2>1. \A a \in AttemptRows : Known(a)' => Known(a)
      <3> SUFFICES ASSUME NEW a \in AttemptRows, Known(a)' PROVE Known(a)
        OBVIOUS
      <3>1. CASE a \in requests' \/ a = NoAttempt
        BY <1>5, <3>1 DEF Known, serverVars
      <3>2. CASE \E u \in Tabs : a = tab'[u].attempt \/ a = outbox'[u].attempt
        BY <1>5, <1>6, <1>7, <3>2 DEF Known
      <3>3. CASE \E u \in Tabs : \E c \in tab'[u].listed : a = c.record.attempt
        <4>1. PICK u \in Tabs : \E c \in tab'[u].listed : a = c.record.attempt
          BY <3>3
        <4>2. CASE u = t
          BY <1>6, <4>1, <4>2 DEF Known
        <4>3. CASE u # t
          BY <1>7, <4>1, <4>3 DEF Known
        <4> QED BY <4>2, <4>3
      <3> QED BY <3>1, <3>2, <3>3 DEF Known
    <2>2. \A a \in AttemptRows : AttemptOK(a) => AttemptOK(a)'
      BY <1>5 DEF AttemptOK, EditsOK, Result, Head1, serverVars
    <2> QED BY <1>1, <2>1, <2>2 DEF AttemptsOK
  <1>14. \A u \in Tabs : RecordOK(outbox[u])'
    BY <1>1, <1>5 DEF ScopesOK, RecordOK, EditsOK, Head1, serverVars
  <1>15. ASSUME NEW u \in Tabs PROVE TabOK(tab[u], outbox[u])'
    <2>1. CASE u # t
      BY <1>1, <1>5, <1>7, <2>1
         DEF ScopesOK, TabOK, WorkOK, Changed, PhaseOK, ConflictsOK, ScreenOK, InHistory, Head1, serverVars
    <2>2. CASE u = t
      <3>1. PICK s \in TabRows : s = tab[t]
        BY <1>2
      <3>2. WorkOK(s) /\ (s.attempt = NoAttempt \/ (s.attempt.base = s.persisted
                                                  /\ s.attempt.edits = Changed(s)))
        BY <1>2, <3>1 DEF TabOK, WorkOK
      <3>3. WorkOK(r)'
        BY <1>1, <1>5, <1>6, <3>1, <3>2, WorkStays DEF serverVars
      <3>4. r.status = "saved" /\ r.attempt = NoAttempt /\ r.conflicts = {} /\ r.pending = {}
        BY <1>1, <1>2, <1>6 DEF TabOK, PhaseOK
      <3>5. PhaseOK(r, NoRecord)' /\ ConflictsOK(r, NoRecord)' /\ ScreenOK(r, NoRecord)'
        BY <1>6, <3>4 DEF PhaseOK, ConflictsOK, ScreenOK
      <3> QED
        BY <1>2, <1>5, <1>6, <2>2, <3>3, <3>5
           DEF TabOK, WorkOK, Changed, PhaseOK, ConflictsOK, ScreenOK
    <2> QED BY <2>1, <2>2
  <1>16. ASSUME NEW u \in Tabs PROVE ListedOK(u)'
    <2>1. CASE u # t
      BY <1>1, <1>5, <1>7, <1>10, <1>11, <2>1
         DEF ScopesOK, ListedOK, RecordOK, EditsOK, Facts, Head1, serverVars
    <2>2. CASE u = t
      <3>1. IsFiniteSet(L)
        <4>1. IsFiniteSet({x \in Tabs : outbox[x] # NoRecord})
          BY EditorAssumption, FS_Subset
        <4> DEFINE S == {x \in Tabs : outbox[x] # NoRecord}
                   g == [x \in S |-> [scope |-> x, record |-> outbox[x]]]
        <4>2. g \in Surjection(S, L)
          BY DEF Surjection
        <4> QED BY <4>1, <4>2, FS_Surjection
      <3>2. \A c \in L : c.scope \in Tabs \ {t} /\ c.record = outbox[c.scope]
        BY <1>2
      <3>3. \A c, d \in L : c.scope = d.scope => c = d
        OBVIOUS
      <3>4. ASSUME NEW c \in L, NEW w \in Tabs \ {c.scope},
                   NEW f \in Facts(c.record.edits) \cap PlaceOf(w)
            PROVE  InHistory(f)
        <4>1. f \in PlaceOf(c.scope)
          BY <3>2 DEF PlaceOf, Place
        <4> QED BY <1>1, <3>2, <4>1 DEF OnePlace
      <3>5. \A c \in L : RecordOK(c.record)'
        BY <1>1, <1>5, <3>2 DEF ScopesOK, RecordOK, EditsOK, Head1, serverVars
      <3>6. \A c \in L : Facts(c.record.edits)' = Facts(c.record.edits)
        BY DEF Facts
      <3> HIDE DEF L
      <3> QED BY <1>6, <1>10, <1>11, <2>2, <3>1, <3>2, <3>3, <3>4, <3>5, <3>6 DEF ListedOK
    <2> QED BY <2>1, <2>2
  <1>17. ReadingOK'
    <2>1. \A u \in Tabs : tab'[u].phase = "reading" => u = t
      BY <1>1, <1>7 DEF LockIsFree
    <2>2. \A u \in Tabs : outbox'[u] = NoRecord \/ [scope |-> u, record |-> outbox'[u]] \in tab'[t].listed
      BY <1>5, <1>6
    <2> HIDE DEF L
    <2> QED BY <2>1, <2>2 DEF ReadingOK
  <1> QED BY <1>8, <1>9, <1>12, <1>13, <1>14, <1>15, <1>16, <1>17 DEF EditorInv, ScopesOK

-----------------------------------------------------------------------------
(* The steps of the server *)

LEMMA ServerKeeps ==
    ASSUME EditorInv, UNCHANGED <<outbox, tab, keys, recorded, raced>>,
           RowTypes', Grown, ServerOK', requests' \subseteq requests,
           \A k \in 1..MaxAttempts : receipts[k] # 0 => receipts'[k] = receipts[k],
           \A a \in AttemptRows :
              Known(a) /\ a # NoAttempt /\ receipts[a.key] = 0 /\ receipts'[a.key] # 0 =>
                 history'[receipts'[a.key]] = Result(a)
    PROVE  EditorInv'
  <1>1. /\ RowTypes /\ ServerOK /\ AttemptsOK /\ ScopesOK /\ OnePlace /\ ReadingOK
        /\ SettledEditSurvives
    BY DEF EditorInv
  <1>2. AttemptsOK'
    <2>1. \A a \in AttemptRows : Known(a)' => Known(a)
      BY DEF Known
    <2>2. ASSUME NEW a \in AttemptRows, Known(a) PROVE AttemptOK(a)'
      <3>1. CASE a = NoAttempt
        BY <3>1 DEF AttemptOK
      <3>2. CASE a # NoAttempt
        <4>1. AttemptOK(a)
          BY <1>1, <2>2 DEF AttemptsOK
        <4> QED BY <1>1, <2>2, <3>2, <4>1, AttemptStays
      <3> QED BY <3>1, <3>2
    <2> QED BY <1>1, <2>1, <2>2 DEF AttemptsOK
  <1>3. ASSUME NEW u \in Tabs PROVE RecordOK(outbox[u])' /\ TabOK(tab[u], outbox[u])'
    <2>1. PICK s \in TabRows, q \in RecordRows : s = tab[u] /\ q = outbox[u]
      BY <1>1, RowFields
    <2>2. RecordOK(q) /\ TabOK(s, q)
      BY <1>1, <2>1 DEF ScopesOK
    <2>3. RecordOK(q)' /\ TabOK(s, q)'
      BY <1>1, <2>2, RecordStays, TabStays
    <2> QED BY <2>1, <2>3 DEF RecordOK, TabOK, WorkOK, PhaseOK, ConflictsOK, ScreenOK, Changed
  <1>4. \A u \in Tabs : PlaceOf(u)' = PlaceOf(u)
    BY DEF PlaceOf, Place, Facts
  <1>5. OnePlace'
    BY <1>1, <1>4, HistoryStays DEF OnePlace
  <1>6. ASSUME NEW u \in Tabs PROVE ListedOK(u)'
    <2>1. ListedOK(u) /\ tab'[u].listed = tab[u].listed
      BY <1>1 DEF ScopesOK
    <2>2. \A c \in tab[u].listed : RecordOK(c.record)'
      <3> SUFFICES ASSUME NEW c \in tab[u].listed PROVE RecordOK(c.record)'
        OBVIOUS
      <3>1. PICK q \in RecordRows : q = c.record
        BY <1>1, ListedRows
      <3>2. RecordOK(q)'
        BY <1>1, <2>1, <3>1, RecordStays DEF ListedOK
      <3> QED BY <3>1, <3>2
    <2>3. \A c \in tab[u].listed : Facts(c.record.edits)' = Facts(c.record.edits)
      BY DEF Facts
    <2> QED BY <1>1, <1>4, <2>1, <2>2, <2>3, HistoryStays DEF ListedOK
  <1>7. ReadingOK'
    BY <1>1 DEF ReadingOK, Facts
  <1>8. SettledEditSurvives'
    <2> SUFFICES ASSUME NEW f \in recorded \ raced
                 PROVE  InHistory(f)' \/ \E u \in Tabs : f \in Facts(outbox[u].edits)
      BY DEF SettledEditSurvives, Survives, InHistory, Facts
    <2>1. InHistory(f) \/ \E u \in Tabs : f \in Facts(outbox[u].edits)
      BY <1>1 DEF SettledEditSurvives, Survives, InHistory
    <2> QED BY <1>1, <2>1, HistoryStays
  <1> QED BY <1>2, <1>3, <1>5, <1>6, <1>7, <1>8 DEF EditorInv, ScopesOK

\* Another revision after the others.
LEMMA Appended ==
    ASSUME RowTypes, ServerOK, NEW new \in [Paths -> Nat], history' = Append(history, new)
    PROVE  /\ history' \in Seq([Paths -> Nat]) /\ Head1' = Head1 + 1 /\ Head1 \in Nat
           /\ history'[Head1 + 1] = new /\ \A r \in 1..Head1 : history'[r] = history[r]
           /\ Len(history') >= 1 /\ history'[1] = Original
           /\ 1..Head1' = (1..Head1) \cup {Head1 + 1}
  BY DEF RowTypes, ServerOK, Head1

LEMMA SaveElsewhereKeeps ==
    ASSUME EditorInv, NEW p \in Paths, SaveElsewhere(p)
    PROVE  EditorInv' /\ history[Head1][p] \in seen'[made']
           /\ history'[Len(history')] = [history[Head1] EXCEPT ![p] = made']
  <1>1. /\ RowTypes /\ ServerOK /\ made \in Nat /\ made' = made + 1 /\ made' \in 1..MaxEdits
        /\ seen \in [1..MaxEdits -> SUBSET Nat]
    BY EditorAssumption DEF EditorInv, RowTypes, SaveElsewhere
  <1>2. history[Head1] \in [Paths -> Nat] /\ Head1 \in 1..Head1 /\ Head1 \in Nat
    BY <1>1 DEF RowTypes, Head1
  <1>3. PICK new \in [Paths -> Nat] :
           new = [history[Head1] EXCEPT ![p] = made'] /\ history' = Append(history, new)
    BY <1>1, <1>2 DEF SaveElsewhere
  <1>4. /\ history' \in Seq([Paths -> Nat]) /\ Head1' = Head1 + 1 /\ Head1 \in Nat
        /\ history'[Head1 + 1] = new /\ \A r \in 1..Head1 : history'[r] = history[r]
        /\ Len(history') >= 1 /\ history'[1] = Original
        /\ 1..Head1' = (1..Head1) \cup {Head1 + 1}
    BY <1>1, <1>3, Appended
  <1>5. seen' = [seen EXCEPT ![made'] = {history[Head1][p]}] /\ history[Head1][p] \in Nat
    BY <1>2 DEF SaveElsewhere
  <1>6. /\ seen' \in [1..MaxEdits -> SUBSET Nat] /\ \A v \in 1..made : seen'[v] = seen[v]
        /\ history[Head1][p] \in seen'[made']
    BY <1>1, <1>5
  <1>7. UNCHANGED <<receipts, refused, requests, outbox, tab, keys, recorded, raced>>
    BY DEF SaveElsewhere
  <1>8. RowTypes' /\ Grown
    <2>1. /\ requests' \subseteq AttemptRows \ {NoAttempt} /\ outbox' \in [Tabs -> RecordRows]
          /\ tab' \in [Tabs -> TabRows] /\ receipts' \in [1..MaxAttempts -> Nat]
          /\ keys' \in 0..MaxAttempts /\ keys' = keys /\ keys \in Nat
      BY <1>1, <1>7, EditorAssumption DEF RowTypes
    <2>2. made' \in 0..MaxEdits /\ made <= made' /\ Head1 <= Head1' /\ keys <= keys'
      BY <1>1, <1>4, <2>1
    <2>3. RowTypes'
      BY <1>4, <1>6, <2>1, <2>2 DEF RowTypes
    <2> QED BY <1>4, <1>6, <2>2, <2>3 DEF Grown
  <1>9. \A q \in Paths : new[q] <= made'
    BY <1>1, <1>2, <1>3 DEF ServerOK
  <1>10. ServerOK'
    <2>1. \A r \in 1..Head1 : \A q \in Paths : history'[r][q] <= made'
      <3> SUFFICES ASSUME NEW r \in 1..Head1, NEW q \in Paths PROVE history[r][q] <= made'
        BY <1>4
      <3>1. history[r] \in [Paths -> Nat]
        BY <1>1, RevisionTyped
      <3>2. history[r][q] \in Nat /\ history[r][q] <= made
        BY <1>1, <3>1 DEF ServerOK
      <3> QED BY <1>1, <3>2
    <2>2. \A k \in 1..MaxAttempts : receipts[k] <= Head1'
      <3> SUFFICES ASSUME NEW k \in 1..MaxAttempts PROVE receipts[k] <= Head1'
        OBVIOUS
      <3>1. receipts[k] \in Nat /\ receipts[k] <= Head1
        BY <1>1 DEF ServerOK, RowTypes
      <3> QED BY <1>4, <3>1
    <2> QED BY <1>1, <1>4, <1>7, <1>9, <2>1, <2>2 DEF ServerOK
  <1>11. EditorInv'
    BY <1>7, <1>8, <1>10, ServerKeeps
  <1> QED BY <1>3, <1>4, <1>6, <1>11 DEF Head1

\* A request lands: answered from its receipt, saved, or refused for its base.
LEMMA PersistKeeps ==
    ASSUME EditorInv, NEW attempt \in requests, persist(attempt)
    PROVE  EditorInv'
  <1>1. /\ RowTypes /\ ServerOK /\ AttemptsOK /\ attempt \in AttemptRows /\ Known(attempt)
        /\ attempt # NoAttempt /\ AttemptOK(attempt)
        /\ UNCHANGED <<outbox, tab, made, keys, recorded, raced, seen>>
        /\ requests' = requests \ {attempt}
    BY DEF EditorInv, RowTypes, Known, AttemptsOK, persist
  <1>2. CASE UNCHANGED <<history, receipts>>
    <2>1. RowTypes' /\ Grown /\ ServerOK'
      BY <1>1, <1>2 DEF RowTypes, Grown, ServerOK, Head1
    <2> QED BY <1>1, <1>2, <2>1, ServerKeeps
  <1>3. CASE ~ UNCHANGED <<history, receipts>>
    <2>1. /\ receipts[attempt.key] = 0 /\ attempt.base = Head1
          /\ history' = Append(history, Result(attempt))
          /\ receipts' = [receipts EXCEPT ![attempt.key] = Len(history')]
      BY <1>3 DEF persist
    <2>2. /\ attempt.key \in 1..keys /\ attempt.base \in 1..Head1 /\ EditsOK(attempt.edits)
          /\ attempt.edits \in SUBSET Edits /\ made \in Nat /\ keys <= MaxAttempts
          /\ keys \in Nat /\ MaxAttempts \in Nat /\ Head1 \in Nat
      BY <1>1, EditorAssumption DEF AttemptOK, AttemptRows, RowTypes, Head1
    <2>3. \A p \in Paths : Result(attempt)[p] \in Nat /\ Result(attempt)[p] <= made
      <3> SUFFICES ASSUME NEW p \in Paths
                   PROVE  Result(attempt)[p] \in Nat /\ Result(attempt)[p] <= made
        OBVIOUS
      <3>1. CASE \E e \in attempt.edits : e.path = p
        <4>1. PICK e \in attempt.edits : e = CHOOSE d \in attempt.edits : d.path = p
          BY <3>1
        <4>2. Result(attempt)[p] = e.value /\ e.value \in 1..made
          BY <2>2, <3>1, <4>1 DEF Result, EditsOK
        <4> QED BY <2>2, <4>2
      <3>2. CASE ~ \E e \in attempt.edits : e.path = p
        <4>1. Result(attempt)[p] = history[attempt.base][p]
          BY <3>2 DEF Result
        <4> QED BY <1>1, <2>2, <4>1 DEF ServerOK, RowTypes, Head1
      <3> QED BY <3>1, <3>2
    <2>4. PICK new \in [Paths -> Nat] : new = Result(attempt)
      BY <2>3 DEF Result
    <2>5. /\ history' \in Seq([Paths -> Nat]) /\ Head1' = Head1 + 1
          /\ history'[Head1 + 1] = new /\ \A r \in 1..Head1 : history'[r] = history[r]
          /\ Len(history') >= 1 /\ history'[1] = Original
          /\ 1..Head1' = (1..Head1) \cup {Head1 + 1}
      BY <1>1, <2>1, <2>4, Appended
    <2>6. /\ receipts \in [1..MaxAttempts -> Nat] /\ attempt.key \in 1..MaxAttempts
          /\ receipts' \in [1..MaxAttempts -> Nat] /\ receipts'[attempt.key] = Head1 + 1
          /\ \A k \in 1..MaxAttempts \ {attempt.key} : receipts'[k] = receipts[k]
      BY <1>1, <2>1, <2>2, <2>5 DEF RowTypes, Head1
    <2>7. RowTypes' /\ Grown
      <3>1. RowTypes'
        <4>1. /\ requests' \subseteq AttemptRows \ {NoAttempt} /\ outbox' \in [Tabs -> RecordRows]
              /\ tab' \in [Tabs -> TabRows] /\ seen' \in [1..MaxEdits -> SUBSET Nat]
          BY <1>1 DEF RowTypes
        <4>2. made' \in 0..MaxEdits /\ keys' \in 0..MaxAttempts
          BY <1>1 DEF RowTypes
        <4> QED BY <2>5, <2>6, <4>1, <4>2 DEF RowTypes
      <3>2. Grown
        <4>1. made <= made' /\ keys <= keys' /\ seen' = seen
          BY <1>1, <2>2
        <4>2. Head1 <= Head1'
          BY <2>2, <2>5
        <4> QED BY <2>5, <4>1, <4>2 DEF Grown
      <3> QED BY <3>1, <3>2
    <2>8. ServerOK'
      <3>1. \A r \in 1..Head1' : \A q \in Paths : history'[r][q] <= made'
        BY <1>1, <2>3, <2>4, <2>5 DEF ServerOK
      <3>2. \A k \in 1..MaxAttempts : receipts'[k] <= Head1' /\ (receipts'[k] # 0 => k <= keys')
        <4> SUFFICES ASSUME NEW k \in 1..MaxAttempts
                     PROVE  receipts'[k] <= Head1' /\ (receipts'[k] # 0 => k <= keys)
          BY <1>1
        <4>1. receipts[k] \in Nat /\ receipts[k] <= Head1 /\ (receipts[k] # 0 => k <= keys)
          BY <1>1 DEF ServerOK, RowTypes
        <4>2. CASE k = attempt.key
          BY <2>2, <2>5, <2>6, <4>2
        <4>3. CASE k # attempt.key
          <5>1. receipts'[k] = receipts[k]
            BY <2>6, <4>3
          <5> QED BY <2>2, <2>5, <4>1, <5>1
        <4> QED BY <4>2, <4>3
      <3> QED BY <2>5, <3>1, <3>2 DEF ServerOK
    <2>9. \A k \in 1..MaxAttempts : receipts[k] # 0 => receipts'[k] = receipts[k]
      BY <2>1, <2>6
    <2>10. ASSUME NEW a \in AttemptRows, Known(a), a # NoAttempt, receipts[a.key] = 0,
                  receipts'[a.key] # 0
           PROVE  history'[receipts'[a.key]] = Result(a)
      <3>1. a.key \in 1..MaxAttempts
        BY <1>1, <2>2, <2>10 DEF AttemptsOK, AttemptOK
      <3>2. a.key = attempt.key
        BY <2>6, <2>10, <3>1
      <3>3. a = attempt
        BY <1>1, <2>10, <3>2 DEF AttemptsOK
      <3> QED BY <2>4, <2>5, <2>6, <3>3
    <2> QED BY <1>1, <2>7, <2>8, <2>9, <2>10, ServerKeeps
  <1> QED BY <1>2, <1>3

-----------------------------------------------------------------------------
(* A document reads what it has listed *)

\* What is selected was listed by documents that are gone, and does not
\* contradict itself.
LEMMA SelectionOK ==
    ASSUME EditorInv, NEW t \in Tabs, NEW s \in Selections(t)
    PROVE  /\ s \subseteq tab[t].listed /\ IsFiniteSet(s)
           /\ \A c \in s : c.scope \in Tabs \ {t} /\ tab[c.scope].phase \in {"unopened", "closed"}
           /\ \A c, d \in s : Agree(c, d)
  <1>1. RowTypes /\ ListedOK(t)
    BY DEF EditorInv, ScopesOK
  <1>2. \A c \in tab[t].listed : Agree(c, c)
    BY <1>1 DEF ListedOK, RecordOK, EditsOK, OnePerPath, Agree
  <1>3. s \subseteq Recoverable(t) /\ \A c, d \in s : Agree(c, d)
    <2> DEFINE all == Recoverable(t)
               attempted == {c \in all : c.record.attempt # NoAttempt}
               agreeing(S) == \A c, d \in S : Agree(c, d)
    <2>1. CASE attempted # {}
      <3>1. s \in {{c} : c \in attempted}
        BY <2>1 DEF Selections
      <3>2. PICK c \in attempted : s = {c}
        BY <3>1
      <3> QED BY <1>2, <3>2 DEF Recoverable
    <2>2. CASE attempted = {}
      <3>1. s \in {S \in SUBSET all : agreeing(S) /\ \A c \in all \ S : ~ agreeing(S \cup {c})}
        BY <2>2 DEF Selections
      <3> QED BY <3>1
    <2> QED BY <2>1, <2>2
  <1>4. s \subseteq tab[t].listed
    BY <1>3 DEF Recoverable
  <1>5. IsFiniteSet(s)
    BY <1>1, <1>4, FS_Subset DEF ListedOK
  <1>6. \A c \in s : c.scope \in Tabs \ {t} /\ tab[c.scope].phase \in {"unopened", "closed"}
    BY <1>1, <1>3, <1>4, ListedRows DEF Recoverable, isScopeLive, ListedOK
  <1> QED BY <1>3, <1>4, <1>5, <1>6

\* The records of a selection become one, in order like each of them; an attempt
\* stays only when nothing was merged.
LEMMA MergedOK ==
    ASSUME EditorInv, NEW t \in Tabs, NEW s \in Selections(t)
    PROVE  /\ Merged(s) \in RecordRows /\ RecordOK(Merged(s))
           /\ Merged(s).attempt = NoAttempt \/ \E c \in s : Merged(s).attempt = c.record.attempt
           /\ \A e \in Merged(s).edits : \E c \in s : e \in c.record.edits
           /\ \A c \in s : c.record.edits \subseteq Merged(s).edits
  <1>1. /\ RowTypes /\ ListedOK(t) /\ s \subseteq tab[t].listed /\ IsFiniteSet(s)
        /\ \A c, d \in s : Agree(c, d)
    BY SelectionOK DEF EditorInv, ScopesOK
  <1>2. CASE s = {}
    <2>1. Merged(s) = NoRecord
      BY <1>2 DEF Merged
    <2> QED BY <1>1, <1>2, <2>1, NothingOK
  <1>3. CASE s # {}
    <2> DEFINE E == UNION {c.record.edits : c \in s}
               B == {c.record.base : c \in s}
               A == IF Cardinality(s) = 1 THEN (CHOOSE c \in s : TRUE).record.attempt ELSE NoAttempt
    <2>1. Merged(s) = [base |-> Max(B), edits |-> E, attempt |-> A]
      BY <1>3 DEF Merged
    <2>2. \A c \in s : /\ c.record \in RecordRows /\ c.record.attempt \in AttemptRows
                       /\ c.record.edits \in SUBSET Edits /\ RecordOK(c.record)
                       /\ c.record.base \in Nat
      BY <1>1, ListedRows DEF ListedOK, RecordRows
    <2>3. E \in SUBSET Edits
      BY <2>2
    <2>4. Head1 \in Nat /\ B \in SUBSET (0..Head1) /\ B # {}
      BY <1>1, <1>3, <2>2 DEF RecordOK, RowTypes, Head1
    <2>5. Max(B) \in B /\ Max(B) \in Nat /\ Max(B) <= Head1
      <3> HIDE DEF B
      <3>1. PICK H \in Nat : H = Head1
        BY <2>4
      <3>2. PICK S \in SUBSET (0..H) : S = B /\ S # {}
        BY <2>4, <3>1
      <3>3. Max(S) \in S
        BY <3>2, LargestOf
      <3>4. Max(S) \in Nat /\ Max(S) <= H
        <4>1. \A m \in S : m \in Nat /\ m <= H
          OBVIOUS
        <4> QED BY <3>3, <4>1
      <3>5. Max(B) = Max(S)
        BY <3>2
      <3> QED BY <3>1, <3>2, <3>3, <3>4, <3>5
    <2>6. A = NoAttempt \/ \E c \in s : s = {c} /\ A = c.record.attempt
      <3>1. CASE Cardinality(s) = 1
        <4>1. PICK c : s = {c}
          BY <1>1, <3>1, FS_Singleton
        <4> QED BY <3>1, <4>1
      <3>2. CASE Cardinality(s) # 1
        BY <3>2
      <3> QED BY <3>1, <3>2
    <2>7. A \in AttemptRows
      <3> HIDE DEF A
      <3> QED BY <2>2, <2>6, NothingOK
    <2>8. Merged(s) \in RecordRows
      <3> HIDE DEF A, B, E
      <3> QED BY <2>1, <2>3, <2>5, <2>7 DEF RecordRows
    <2>9. Merged(s).base = Max(B) /\ Merged(s).edits = E /\ Merged(s).attempt = A
      BY <2>1
    <2>10. EditsOK(E)
      <3>1. OnePerPath(E)
        <4> SUFFICES ASSUME NEW e \in E, NEW f \in E, e.path = f.path PROVE e = f
          BY DEF OnePerPath
        <4>1. PICK c \in s : e \in c.record.edits
          OBVIOUS
        <4>2. PICK d \in s : f \in d.record.edits
          OBVIOUS
        <4>3. e.base = f.base /\ e.value = f.value
          BY <1>1, <4>1, <4>2 DEF Agree
        <4> QED BY <2>3, <4>3 DEF Edits
      <3>2. \A e \in E : e.value \in 1..made /\ e.base \in seen[e.value]
        BY <2>2 DEF RecordOK, EditsOK
      <3> QED BY <3>1, <3>2 DEF EditsOK
    <2>11. A # NoAttempt => A.edits = E /\ A.base = Max(B)
      <3> SUFFICES ASSUME A # NoAttempt PROVE A.edits = E /\ A.base = Max(B)
        OBVIOUS
      <3>1. PICK c \in s : s = {c} /\ A = c.record.attempt
        BY <2>6
      <3>2. E = c.record.edits /\ B = {c.record.base}
        BY <3>1
      <3>3. Max(B) = c.record.base
        BY <2>5, <3>2
      <3> QED BY <2>2, <3>1, <3>2, <3>3 DEF RecordOK
    <2>12. RecordOK(Merged(s))
      <3> HIDE DEF A, B, E
      <3> QED BY <2>5, <2>9, <2>10, <2>11 DEF RecordOK
    <2>13. /\ A = NoAttempt \/ \E c \in s : A = c.record.attempt
           /\ \A e \in E : \E c \in s : e \in c.record.edits
           /\ \A c \in s : c.record.edits \subseteq E
      BY <2>6
    <2> HIDE DEF A, B, E
    <2> QED BY <2>8, <2>9, <2>12, <2>13
  <1> QED BY <1>2, <1>3

\* The working copy after a recovery: each edit is there or in conflict, and what
\* changed departs from the value its owner saw.
Clean(t, record) == record.edits \ (Applied(t, record) \cup Conflicting(t, record))
Recovered(t, record) ==
    [p \in Paths |->
        IF \E e \in Clean(t, record) : e.path = p
        THEN (CHOOSE e \in Clean(t, record) : e.path = p).value
        ELSE tab[t].working[p]]

LEMMA RecoveredOK ==
    ASSUME EditorInv, NEW t \in Tabs, NEW record \in RecordRows, RecordOK(record)
    PROVE  /\ Recovered(t, record) \in [Paths -> Nat]
           /\ \A e \in record.edits : \/ Recovered(t, record)[e.path] = e.value
                                      \/ e \in Conflicting(t, record)
           /\ \A p \in Paths :
                 \/ Recovered(t, record)[p] = tab[t].working[p]
                 \/ \E e \in Clean(t, record) :
                       /\ e.path = p /\ Recovered(t, record)[p] = e.value
                       /\ tab[t].working[p] = e.base
  <1> DEFINE w == Recovered(t, record)
  <1>1. /\ RowTypes /\ tab[t].working \in [Paths -> Nat] /\ record.edits \in SUBSET Edits
        /\ OnePerPath(record.edits) /\ Clean(t, record) \subseteq record.edits
    BY RowFields DEF EditorInv, RecordRows, RecordOK, EditsOK, Clean
  <1>2. \A e \in Clean(t, record) : w[e.path] = e.value
    <2> SUFFICES ASSUME NEW e \in Clean(t, record) PROVE w[e.path] = e.value
      OBVIOUS
    <2>1. e.path \in Paths
      BY <1>1 DEF Edits
    <2>2. (CHOOSE d \in Clean(t, record) : d.path = e.path) = e
      BY <1>1 DEF OnePerPath
    <2> QED BY <2>1, <2>2 DEF Recovered
  <1>3. \A p \in Paths : \/ w[p] = tab[t].working[p]
                         \/ \E e \in Clean(t, record) : e.path = p /\ w[p] = e.value
    <2> SUFFICES ASSUME NEW p \in Paths
                 PROVE  \/ w[p] = tab[t].working[p]
                        \/ \E e \in Clean(t, record) : e.path = p /\ w[p] = e.value
      OBVIOUS
    <2>1. CASE \E e \in Clean(t, record) : e.path = p
      BY <1>2, <2>1
    <2>2. CASE ~ \E e \in Clean(t, record) : e.path = p
      BY <2>2 DEF Recovered
    <2> QED BY <2>1, <2>2
  <1>4. w \in [Paths -> Nat]
    <2>1. \A p \in Paths : w[p] \in Nat
      BY <1>1, <1>3 DEF Edits
    <2>2. w = [p \in Paths |-> w[p]]
      BY DEF Recovered
    <2> HIDE DEF w
    <2> QED BY <2>1, <2>2
  <1>5. \A e \in Clean(t, record) : tab[t].working[e.path] = e.base
    BY DEF Clean, Conflicting, CurrentValue
  <1>6. ASSUME NEW e \in record.edits, e \notin Conflicting(t, record) PROVE w[e.path] = e.value
    <2>1. CASE e \in Clean(t, record)
      BY <1>2, <2>1
    <2>2. CASE e \notin Clean(t, record)
      <3>1. tab[t].working[e.path] = e.value
        BY <1>6, <2>2 DEF Clean, Applied, CurrentValue
      <3>2. ~ \E d \in Clean(t, record) : d.path = e.path
        BY <1>1, <2>2 DEF OnePerPath
      <3>3. e.path \in Paths
        BY <1>1 DEF Edits
      <3> QED BY <3>1, <3>2, <3>3 DEF Recovered
    <2> QED BY <2>1, <2>2
  <1>7. \A p \in Paths :
           \/ w[p] = tab[t].working[p]
           \/ \E e \in Clean(t, record) :
                 e.path = p /\ w[p] = e.value /\ tab[t].working[p] = e.base
    BY <1>3, <1>5
  <1> QED BY <1>4, <1>6, <1>7

\* What read makes of the document and of its record.
AllApplied(t, record) == Applied(t, record) = record.edits
ReadTab(t, record) ==
    [tab[t] EXCEPT !.phase = "ready", !.listed = {},
                   !.working = Recovered(t, record),
                   !.status = StatusOf(t, Recovered(t, record)),
                   !.attempt = IF RestoresAttempt(t, record) THEN record.attempt ELSE NoAttempt,
                   !.conflicts = Conflicting(t, record),
                   !.pending = IF Conflicting(t, record) = {} THEN {} ELSE record.edits]

LEMMA ReadEffect ==
    ASSUME NEW t \in Tabs, read(t), RowTypes
    PROVE  \E s \in Selections(t) :
              /\ outbox' = [u \in Tabs |->
                    IF u = t THEN IF AllApplied(t, Merged(s)) THEN NoRecord ELSE Merged(s)
                    ELSE IF u \in Replaced(t, s) THEN NoRecord ELSE outbox[u]]
              /\ tab' = [tab EXCEPT ![t] = ReadTab(t, Merged(s))]
  BY DEF read, AllApplied, ReadTab, Recovered, Clean

\* A restored attempt asks for what the document shows again.
LEMMA RestoredOK ==
    ASSUME EditorInv, NEW t \in Tabs, NEW record \in RecordRows, RecordOK(record),
           Known(record.attempt), tab[t].working = history[tab[t].persisted],
           RestoresAttempt(t, record), NEW r \in TabRows,
           r.working = Recovered(t, record), r.persisted = tab[t].persisted
    PROVE  record.attempt.base = r.persisted /\ record.attempt.edits = Changed(r)
  <1> DEFINE h == history[tab[t].persisted]
             w == Recovered(t, record)
  <1>1. /\ Conflicting(t, record) = {} /\ record.attempt # NoAttempt
        /\ record.base = tab[t].persisted /\ record.attempt.base = record.base
        /\ record.attempt.edits = record.edits /\ record.edits \in SUBSET Edits
        /\ record.attempt \in AttemptRows /\ OnePerPath(record.edits)
    BY DEF RestoresAttempt, RecordOK, RecordRows, EditsOK
  <1>2. \A e \in record.edits : e.base = h[e.path] /\ e.value # e.base
    BY <1>1 DEF EditorInv, AttemptsOK, AttemptOK
  <1>3. \A e \in record.edits : w[e.path] = e.value
    BY <1>1, RecoveredOK
  <1>4. \A p \in Paths : w[p] = h[p] \/ \E e \in record.edits : e.path = p
    BY RecoveredOK DEF Clean
  <1> HIDE DEF h, w
  <1>5. ASSUME NEW e \in record.edits PROVE e \in Changed(r)
    <2>1. e.path \in Paths /\ e = [path |-> e.path, base |-> e.base, value |-> e.value]
      BY <1>1 DEF Edits
    <2>2. r.working[e.path] = e.value /\ history[r.persisted][e.path] = e.base
      BY <1>2, <1>3 DEF h, w
    <2> QED BY <1>2, <2>1, <2>2 DEF Changed
  <1>6. ASSUME NEW e \in Changed(r) PROVE e \in record.edits
    <2>1. PICK p \in Paths :
             /\ r.working[p] # history[r.persisted][p]
             /\ e = [path |-> p, base |-> history[r.persisted][p], value |-> r.working[p]]
      BY DEF Changed
    <2>2. PICK d \in record.edits : d.path = p
      BY <1>4, <2>1 DEF h, w
    <2>3. d = [path |-> d.path, base |-> d.base, value |-> d.value]
      BY <1>1 DEF Edits
    <2>4. r.working[p] = d.value /\ history[r.persisted][p] = d.base
      BY <1>2, <1>3, <2>2 DEF h, w
    <2> QED BY <2>1, <2>2, <2>3, <2>4
  <1> QED BY <1>1, <1>5, <1>6

LEMMA ReadTabOK ==
    ASSUME EditorInv, NEW t \in Tabs, tab[t].phase = "reading",
           NEW record \in RecordRows, RecordOK(record), Known(record.attempt),
           UNCHANGED <<history, made, seen>>, NEW r \in TabRows, r = ReadTab(t, record),
           NEW o \in RecordRows,
           o = IF AllApplied(t, record) THEN NoRecord ELSE record
    PROVE  TabOK(r, o)' /\ r.phase = "ready" /\ r.listed = {} /\ r.working = Recovered(t, record)
           /\ (r.attempt = NoAttempt \/ r.attempt = record.attempt)
  <1>1. /\ RowTypes /\ WorkOK(tab[t]) /\ PhaseOK(tab[t], outbox[t]) /\ tab[t] \in TabRows
        /\ tab[t].working = history[tab[t].persisted] /\ tab[t].persisted \in 1..Head1
        /\ made \in Nat
    BY RowFields DEF EditorInv, ScopesOK, TabOK, PhaseOK, WorkOK, RowTypes
  <1>2. /\ Recovered(t, record) \in [Paths -> Nat] /\ record.edits \in SUBSET Edits
        /\ EditsOK(record.edits)
        /\ \A e \in record.edits : \/ Recovered(t, record)[e.path] = e.value
                                   \/ e \in Conflicting(t, record)
        /\ \A p \in Paths :
              \/ Recovered(t, record)[p] = tab[t].working[p]
              \/ \E e \in record.edits :
                    /\ e.path = p /\ Recovered(t, record)[p] = e.value
                    /\ tab[t].working[p] = e.base
    BY RecoveredOK DEF RecordOK, RecordRows, Clean
  <1> DEFINE w == Recovered(t, record)
             attempt == IF RestoresAttempt(t, record) THEN record.attempt ELSE NoAttempt
             conflicts == Conflicting(t, record)
             pending == IF conflicts = {} THEN {} ELSE record.edits
  <1>3. /\ r.phase = "ready" /\ r.listed = {} /\ r.working = w /\ r.status = StatusOf(t, w)
        /\ r.attempt = attempt /\ r.conflicts = conflicts /\ r.pending = pending
        /\ r.persisted = tab[t].persisted
    <2> HIDE DEF w, attempt, conflicts, pending
    <2>1. r = [tab[t] EXCEPT !.phase = "ready", !.listed = {}, !.working = w,
                             !.status = StatusOf(t, w), !.attempt = attempt,
                             !.conflicts = conflicts, !.pending = pending]
      BY DEF ReadTab, w, attempt, conflicts, pending
    <2> QED BY <1>1, <2>1 DEF TabRows
  <1>4. conflicts \subseteq record.edits
    BY DEF Conflicting
  <1>5. attempt # NoAttempt => /\ RestoresAttempt(t, record) /\ conflicts = {}
                               /\ attempt = record.attempt
    BY DEF RestoresAttempt
  <1>6. attempt # NoAttempt => attempt.base = r.persisted /\ attempt.edits = Changed(r)
    BY <1>1, <1>3, <1>5, RestoredOK
  <1> HIDE DEF w, attempt, conflicts
  <1>7. WorkOK(r)'
    <2>1. ASSUME NEW p \in Paths
          PROVE  /\ r.working[p] <= made
                 /\ r.working[p] # history[r.persisted][p] =>
                       r.working[p] # 0 /\ history[r.persisted][p] \in seen[r.working[p]]
      <3>1. CASE w[p] = tab[t].working[p]
        BY <1>1, <1>3, <3>1 DEF WorkOK
      <3>2. CASE \E e \in record.edits : /\ e.path = p /\ w[p] = e.value
                                         /\ tab[t].working[p] = e.base
        <4>1. PICK e \in record.edits : w[p] = e.value /\ tab[t].working[p] = e.base
          BY <3>2
        <4>2. e.value \in 1..made /\ e.base \in seen[e.value]
          BY <1>2 DEF EditsOK
        <4> QED BY <1>1, <1>3, <4>1, <4>2
      <3> QED BY <1>2, <3>1, <3>2 DEF w
    <2>2. r.status = "saved" => r.working = history[r.persisted]
      BY <1>3 DEF StatusOf
    <2> QED BY <1>1, <1>3, <1>6, <2>1, <2>2 DEF WorkOK, Changed, Head1
  <1>8. PhaseOK(r, o)'
    BY <1>3 DEF PhaseOK, StatusOf
  <1>9. \A e \in record.edits : w[e.path] = e.value \/ e \in conflicts
    BY <1>2 DEF w, conflicts
  <1>10. ConflictsOK(r, o)'
    <2>1. conflicts # {} => o = record
      BY DEF conflicts, AllApplied, Conflicting
    <2>2. r.status \in {"saved", "dirty"}
      BY <1>3 DEF StatusOf
    <2> QED BY <1>3, <1>4, <1>5, <1>9, <2>1, <2>2 DEF ConflictsOK
  <1>11. ScreenOK(r, o)'
    <2>1. o.edits \subseteq record.edits
      BY NothingOK
    <2> QED BY <1>3, <1>9, <2>1 DEF ScreenOK
  <1>12. r.attempt = NoAttempt \/ r.attempt = record.attempt
    BY <1>3, <1>5
  <1> QED BY <1>3, <1>7, <1>8, <1>10, <1>11, <1>12 DEF TabOK, w

LEMMA ReadKeeps ==
    ASSUME EditorInv, NEW t \in Tabs, read(t) PROVE EditorInv'
  <1>1. /\ RowTypes /\ ServerOK /\ AttemptsOK /\ ScopesOK /\ OnePlace /\ ReadingOK
        /\ SettledEditSurvives /\ tab[t].phase = "reading" /\ tab[t] \in TabRows
        /\ tab \in [Tabs -> TabRows] /\ outbox \in [Tabs -> RecordRows]
        /\ outbox[t] = NoRecord /\ tab[t].working = history[tab[t].persisted]
        /\ tab[t].persisted \in 1..Head1
    BY RowFields DEF EditorInv, read, RowTypes, ScopesOK, TabOK, PhaseOK, WorkOK
  <1>2. PICK s \in Selections(t) :
           /\ outbox' = [u \in Tabs |->
                 IF u = t THEN IF AllApplied(t, Merged(s)) THEN NoRecord ELSE Merged(s)
                 ELSE IF u \in Replaced(t, s) THEN NoRecord ELSE outbox[u]]
           /\ tab' = [tab EXCEPT ![t] = ReadTab(t, Merged(s))]
    BY <1>1, ReadEffect
  <1>3. UNCHANGED <<serverVars, made, keys, recorded, raced, seen>>
    BY DEF read
  <1>4. /\ s \subseteq tab[t].listed
        /\ \A c \in s : c.scope \in Tabs \ {t} /\ tab[c.scope].phase \in {"unopened", "closed"}
    BY SelectionOK
  <1>5. PICK record \in RecordRows :
           /\ record = Merged(s) /\ RecordOK(record)
           /\ record.attempt = NoAttempt \/ \E c \in s : record.attempt = c.record.attempt
           /\ \A e \in record.edits : \E c \in s : e \in c.record.edits
           /\ \A c \in s : c.record.edits \subseteq record.edits
    BY MergedOK
  <1>6. Known(record.attempt)
    BY <1>4, <1>5 DEF Known
  <1>7. PICK o \in RecordRows : o = IF AllApplied(t, record) THEN NoRecord ELSE record
    BY NothingOK
  <1>8. PICK r \in TabRows : r = ReadTab(t, record)
    <2> DEFINE w == Recovered(t, record)
               attempt == IF RestoresAttempt(t, record) THEN record.attempt ELSE NoAttempt
               conflicts == Conflicting(t, record)
               pending == IF conflicts = {} THEN {} ELSE record.edits
    <2>1. /\ record.edits \in SUBSET Edits /\ record.attempt \in AttemptRows
          /\ w \in [Paths -> Nat]
      BY <1>5, RecoveredOK DEF RecordRows
    <2>2. attempt \in AttemptRows /\ conflicts \in SUBSET Edits /\ pending \in SUBSET Edits
      BY <2>1, NothingOK DEF Conflicting
    <2>3. StatusOf(t, w) \in {"saved", "dirty"}
      BY DEF StatusOf
    <2>4. ReadTab(t, record) = [tab[t] EXCEPT !.phase = "ready", !.listed = {}, !.working = w,
                             !.status = StatusOf(t, w), !.attempt = attempt,
                             !.conflicts = conflicts, !.pending = pending]
      BY DEF ReadTab
    <2> HIDE DEF w, attempt, conflicts, pending
    <2> QED BY <1>1, <2>1, <2>2, <2>3, <2>4 DEF TabRows
  <1>9. /\ TabOK(r, o)' /\ r.phase = "ready" /\ r.listed = {}
        /\ r.working = Recovered(t, record)
        /\ r.attempt = NoAttempt \/ r.attempt = record.attempt
    <2>1. UNCHANGED <<history, made, seen>>
      BY <1>3 DEF serverVars
    <2> QED BY <1>1, <1>5, <1>6, <1>7, <1>8, <2>1, ReadTabOK
  <1>10. /\ tab'[t] = r /\ outbox'[t] = o
         /\ \A u \in Tabs \ {t} : tab'[u] = tab[u]
         /\ \A u \in Tabs \ {t} :
               outbox'[u] = IF \E c \in s : c.scope = u THEN NoRecord ELSE outbox[u]
    BY <1>1, <1>2, <1>5, <1>7, <1>8 DEF Replaced
  <1>11. RowTypes'
    <2>1. tab' \in [Tabs -> TabRows]
      BY <1>1, <1>2, <1>5, <1>8
    <2>2. outbox' \in [Tabs -> RecordRows]
      BY <1>1, <1>2, <1>5, <1>7, NothingOK
    <2> QED BY <1>1, <1>3, <2>1, <2>2 DEF RowTypes, serverVars
  <1>12. ServerOK' /\ (\A f : InHistory(f)' <=> InHistory(f))
    BY <1>1, <1>3 DEF ServerOK, InHistory, serverVars, Head1
  <1>13. \A u \in Tabs : tab'[u].phase # "reading"
    BY <1>1, <1>9, <1>10 DEF ReadingOK
  <1>14. \A u \in Tabs : tab'[u].listed = {}
    BY <1>1, <1>9, <1>10 DEF ReadingOK, ScopesOK, TabOK, PhaseOK
  <1>15. RecordOK(o)' /\ RecordOK(NoRecord)'
    <2>1. RecordOK(NoRecord)'
      BY <1>11, NothingOK, PTL
    <2>2. RecordOK(record)'
      BY <1>3, <1>5 DEF RecordOK, EditsOK, Head1, serverVars
    <2> QED BY <1>7, <2>1, <2>2
  <1>16. AttemptsOK'
    <2>1. \A a \in AttemptRows : Known(a)' => Known(a)
      <3> SUFFICES ASSUME NEW a \in AttemptRows, Known(a)' PROVE Known(a)
        OBVIOUS
      <3>1. CASE a \in requests' \/ a = NoAttempt
        BY <1>3, <3>1 DEF Known, serverVars
      <3>2. CASE \E u \in Tabs : a = tab'[u].attempt \/ a = outbox'[u].attempt
        <4>1. PICK u \in Tabs : a = tab'[u].attempt \/ a = outbox'[u].attempt
          BY <3>2
        <4>2. o.attempt = NoAttempt \/ o.attempt = record.attempt
          BY <1>7, NothingOK
        <4>3. CASE u = t
          BY <1>6, <1>9, <1>10, <4>1, <4>2, <4>3, NothingKnown
        <4>4. CASE u # t
          BY <1>10, <4>1, <4>4, NothingOK DEF Known
        <4> QED BY <4>3, <4>4
      <3> QED BY <1>14, <3>1, <3>2 DEF Known
    <2>2. \A a \in AttemptRows : AttemptOK(a) => AttemptOK(a)'
      BY <1>3 DEF AttemptOK, EditsOK, Result, Head1, serverVars
    <2> QED BY <1>1, <2>1, <2>2 DEF AttemptsOK
  <1>17. ASSUME NEW u \in Tabs PROVE RecordOK(outbox[u])' /\ TabOK(tab[u], outbox[u])'
    <2>1. CASE u = t
      BY <1>9, <1>10, <1>15, <2>1
         DEF RecordOK, TabOK, WorkOK, PhaseOK, ConflictsOK, ScreenOK, Changed
    <2>2. CASE u # t /\ ~ \E c \in s : c.scope = u
      <3>1. PICK x \in TabRows, q \in RecordRows : x = tab[u] /\ q = outbox[u]
        BY <1>1
      <3>2. RecordOK(q) /\ TabOK(x, q)
        BY <1>1, <3>1 DEF ScopesOK
      <3>3. Grown /\ recorded' = recorded
        BY <1>1, <1>3 DEF Grown, RowTypes, Head1, serverVars
      <3>4. RecordOK(q)' /\ TabOK(x, q)'
        BY <1>1, <1>11, <3>2, <3>3, RecordStays, TabStays
      <3> QED BY <1>10, <2>2, <3>1, <3>4
           DEF RecordOK, TabOK, WorkOK, PhaseOK, ConflictsOK, ScreenOK, Changed
    <2>3. CASE u # t /\ \E c \in s : c.scope = u
      <3>1. tab[u].phase \in {"unopened", "closed"} /\ outbox'[u] = NoRecord /\ tab'[u] = tab[u]
        BY <1>4, <1>10, <2>3
      <3>2. WorkOK(tab[u])'
        BY <1>1, <1>3, <3>1 DEF ScopesOK, TabOK, WorkOK, Changed, Head1, serverVars
      <3>3. PhaseOK(tab[u], outbox[u])' /\ ConflictsOK(tab[u], outbox[u])'
            /\ ScreenOK(tab[u], outbox[u])'
        BY <1>1, <3>1 DEF ScopesOK, TabOK, PhaseOK, ConflictsOK, ScreenOK
      <3> QED BY <1>15, <3>1, <3>2, <3>3 DEF RecordOK, TabOK
    <2> QED BY <2>1, <2>2, <2>3
  <1>18. \A u \in Tabs : ListedOK(u)'
    BY <1>14, FS_EmptySet DEF ListedOK
  <1>19. \A f \in PlaceOf(t)' : f \in PlaceOf(t) \/ \E c \in s : f \in Facts(c.record.edits)
    <2> SUFFICES ASSUME NEW f \in PlaceOf(t)'
                 PROVE  f \in PlaceOf(t) \/ \E c \in s : f \in Facts(c.record.edits)
      OBVIOUS
    <2>1. \A e \in record.edits : \E c \in s : <<e.path, e.value>> \in Facts(c.record.edits)
      BY <1>5 DEF Facts
    <2>2. CASE f \in Facts(outbox[t].edits)'
      <3>1. PICK e \in o.edits : f = <<e.path, e.value>>
        BY <1>10, <2>2 DEF Facts
      <3>2. e \in record.edits
        BY <1>7, NothingOK
      <3> QED BY <2>1, <3>1, <3>2
    <2>3. CASE \E p \in Paths : f = <<p, tab'[t].working[p]>>
      <3>1. PICK p \in Paths : f = <<p, r.working[p]>>
        BY <1>10, <2>3
      <3>2. CASE r.working[p] = tab[t].working[p]
        BY <3>1, <3>2 DEF PlaceOf, Place
      <3>3. CASE \E e \in Clean(t, record) : e.path = p /\ r.working[p] = e.value
        BY <2>1, <3>1, <3>3 DEF Clean
      <3> QED BY <1>5, <1>9, <3>2, <3>3, RecoveredOK
    <2> QED BY <2>2, <2>3 DEF PlaceOf, Place
  <1>20. ASSUME NEW u \in Tabs \ {t}, NEW f \in PlaceOf(u)'
         PROVE  f \in PlaceOf(u) /\ (InHistory(f) \/ \A c \in s : c.scope # u)
    <2>1. f \in PlaceOf(u)
      BY <1>10, NothingOK DEF PlaceOf, Place, Facts
    <2>2. ASSUME NEW c \in s, c.scope = u PROVE InHistory(f)
      <3>1. outbox'[u] = NoRecord /\ tab'[u] = tab[u] /\ tab[u].phase \in {"unopened", "closed"}
        BY <1>4, <1>10, <2>2
      <3>2. PICK p \in Paths : f = <<p, tab[u].working[p]>>
        BY <3>1, NothingOK DEF PlaceOf, Place, Facts
      <3>3. tab[u].working = history[tab[u].persisted] /\ tab[u].persisted \in 1..Head1
        BY <1>1, <3>1 DEF ScopesOK, TabOK, PhaseOK, WorkOK
      <3> QED BY <1>1, <3>2, <3>3, RevisionIsHistory
    <2> QED BY <2>1, <2>2
  <1>21. OnePlace'
    <2>1. ASSUME NEW u \in Tabs \ {t}, NEW f \in PlaceOf(t)' \cap PlaceOf(u)' PROVE InHistory(f)
      <3>1. CASE f \in PlaceOf(t)
        BY <1>1, <1>20, <2>1, <3>1 DEF OnePlace
      <3>2. ASSUME NEW c \in s, f \in Facts(c.record.edits) PROVE InHistory(f)
        BY <1>1, <1>4, <1>20, <2>1, <3>2 DEF ScopesOK, ListedOK
      <3> QED BY <1>19, <2>1, <3>1, <3>2
    <2>2. ASSUME NEW u \in Tabs \ {t}, NEW w \in Tabs \ {t}, u # w,
                 NEW f \in PlaceOf(w)' \cap PlaceOf(u)' PROVE InHistory(f)
      BY <1>1, <1>20, <2>2 DEF OnePlace
    <2> QED BY <1>12, <2>1, <2>2 DEF OnePlace
  <1>22. ReadingOK'
    BY <1>13 DEF ReadingOK
  <1>23. SettledEditSurvives'
    <2> SUFFICES ASSUME NEW f \in recorded \ raced
                 PROVE  InHistory(f) \/ \E u \in Tabs : f \in Facts(outbox'[u].edits)
      BY <1>3, <1>12 DEF SettledEditSurvives, Survives, InHistory, Facts
    <2>1. InHistory(f) \/ \E u \in Tabs : f \in Facts(outbox[u].edits)
      BY <1>1 DEF SettledEditSurvives, Survives, InHistory
    <2>2. ASSUME NEW u \in Tabs, f \in Facts(outbox[u].edits)
          PROVE  InHistory(f) \/ \E v \in Tabs : f \in Facts(outbox'[v].edits)
      <3>1. u # t /\ outbox[u] # NoRecord
        BY <1>1, <2>2, NothingOK DEF Facts
      <3>2. CASE ~ \E c \in s : c.scope = u
        BY <1>10, <2>2, <3>1, <3>2
      <3>3. CASE \E c \in s : c.scope = u
        <4>1. PICK c \in s : c.scope = u
          BY <3>3
        <4>2. [scope |-> u, record |-> outbox[u]] \in tab[t].listed
          BY <1>1, <2>2, <3>1 DEF ReadingOK
        <4>3. c = [scope |-> u, record |-> outbox[u]]
          BY <1>1, <1>4, <4>1, <4>2 DEF ScopesOK, ListedOK
        <4>4. PICK e \in record.edits : f = <<e.path, e.value>>
          BY <1>5, <2>2, <4>3 DEF Facts
        <4>5. CASE AllApplied(t, record)
          <5>1. tab[t].working[e.path] = e.value
            BY <4>4, <4>5 DEF AllApplied, Applied, CurrentValue
          <5> QED BY <1>1, <4>4, <5>1, RevisionIsHistory
        <4>6. CASE ~ AllApplied(t, record)
          BY <1>7, <1>10, <4>4, <4>6 DEF Facts
        <4> QED BY <4>5, <4>6
      <3> QED BY <3>2, <3>3
    <2> QED BY <2>1, <2>2
  <1> QED
    BY <1>11, <1>12, <1>16, <1>17, <1>18, <1>21, <1>22, <1>23 DEF EditorInv, ScopesOK

-----------------------------------------------------------------------------
(* The theorems *)

LEMMA InitOK == ASSUME EditorInit PROVE EditorInv
  <1>1. /\ Original \in [Paths -> Nat] /\ history \in Seq([Paths -> Nat]) /\ Head1 = 1
        /\ history[1] = Original
    BY DEF EditorInit, Original, Head1
  <1>2. NewTab \in TabRows /\ NewTab.phase = "unopened" /\ NewTab.persisted = 1
        /\ NewTab.working = Original /\ NewTab.status = "saved" /\ NewTab.attempt = NoAttempt
        /\ NewTab.listed = {} /\ NewTab.pending = {} /\ NewTab.conflicts = {}
    BY <1>1, NothingOK DEF NewTab, TabRows
  <1>3. \A t \in Tabs : tab[t] = NewTab /\ outbox[t] = NoRecord
    BY DEF EditorInit
  <1>4. RowTypes
    <2>1. outbox \in [Tabs -> RecordRows] /\ tab \in [Tabs -> TabRows]
      BY <1>2, NothingOK DEF EditorInit
    <2> QED BY <1>1, <2>1, EditorAssumption DEF EditorInit, RowTypes, Head1
  <1>5. ServerOK
    BY <1>1 DEF EditorInit, ServerOK, Original
  <1>6. \A a : Known(a) => a = NoAttempt
    BY <1>2, <1>3, NothingOK DEF EditorInit, Known
  <1>7. AttemptsOK
    BY <1>6, NothingOK DEF AttemptsOK
  <1>8. ASSUME NEW t \in Tabs PROVE RecordOK(outbox[t]) /\ TabOK(tab[t], outbox[t]) /\ ListedOK(t)
    <2>1. RecordOK(outbox[t])
      BY <1>3, <1>4, NothingOK
    <2>2. WorkOK(tab[t])
      BY <1>1, <1>2, <1>3 DEF EditorInit, WorkOK, Original
    <2>3. PhaseOK(tab[t], outbox[t]) /\ ConflictsOK(tab[t], outbox[t]) /\ ScreenOK(tab[t], outbox[t])
      BY <1>2, <1>3 DEF PhaseOK, ConflictsOK, ScreenOK
    <2>4. ListedOK(t)
      BY <1>2, <1>3, FS_EmptySet DEF ListedOK
    <2> QED BY <2>1, <2>2, <2>3, <2>4 DEF TabOK
  <1>9. \A t \in Tabs : \A f \in PlaceOf(t) : InHistory(f)
    <2> SUFFICES ASSUME NEW t \in Tabs, NEW f \in PlaceOf(t) PROVE InHistory(f)
      OBVIOUS
    <2>1. PICK p \in Paths : f = <<p, history[1][p]>>
      BY <1>1, <1>2, <1>3, NothingOK DEF PlaceOf, Place, Facts
    <2> QED BY <1>1, <1>4, <2>1, RevisionIsHistory
  <1>10. ReadingOK
    BY <1>2, <1>3 DEF ReadingOK
  <1>11. SettledEditSurvives
    BY DEF EditorInit, SettledEditSurvives
  <1> QED
    BY <1>4, <1>5, <1>7, <1>8, <1>9, <1>10, <1>11 DEF EditorInv, ScopesOK, OnePlace

LEMMA StutterOK == ASSUME EditorInv, UNCHANGED editorVars PROVE EditorInv'
  <1>1. UNCHANGED <<history, receipts, requests, outbox, tab, made, keys, recorded, raced, seen>>
    BY DEF editorVars, serverVars
  <1>2. RowTypes' /\ Grown /\ ServerOK'
    BY <1>1 DEF EditorInv, RowTypes, Grown, ServerOK, Head1
  <1> QED BY <1>1, <1>2, ServerKeeps

\* Only the server saves a revision.
LEMMA TabStepHistory == ASSUME NEW t \in Tabs, TabStep(t) PROVE history' = history
  <1>1. CASE open(t) \/ close(t) \/ listRecords(t)
    BY <1>1 DEF open, close, listRecords, serverVars
  <1>2. CASE read(t)
    BY <1>2 DEF read, serverVars
  <1>3. CASE snapshot(t) \/ acknowledge(t) \/ saveFails(t)
    BY <1>3 DEF snapshot, acknowledge, saveFails, serverVars
  <1>4. CASE revisionConflict(t) \/ fieldsInvalid(t)
    BY <1>4 DEF revisionConflict, fieldsInvalid, serverVars
  <1>5. CASE \E recordable \in BOOLEAN : save(t, recordable)
    BY <1>5 DEF save
  <1>6. CASE \E p \in Paths : edit(t, p) \/ moveEditHistory(t, p)
    BY <1>6 DEF edit, moveEditHistory, serverVars
  <1>7. CASE \E e \in tab[t].conflicts, resolution \in {"latest", "mine"} :
               resolveRecoveryConflict(t, e, resolution)
    BY <1>7 DEF resolveRecoveryConflict, serverVars
  <1> QED BY <1>1, <1>2, <1>3, <1>4, <1>5, <1>6, <1>7 DEF TabStep

LEMMA TabStepKeeps ==
    ASSUME EditorInv, NEW t \in Tabs, TabStep(t) PROVE EditorInv'
  <1>1. CASE open(t) \/ close(t) \/ listRecords(t) \/ read(t)
    BY <1>1, OpenKeeps, CloseKeeps, ListRecordsKeeps, ReadKeeps
  <1>2. CASE snapshot(t) \/ acknowledge(t) \/ saveFails(t)
    BY <1>2, SnapshotKeeps, AcknowledgeKeeps, SaveFailsKeeps
  <1>3. CASE revisionConflict(t) \/ fieldsInvalid(t)
    BY <1>3, RevisionConflictKeeps, FieldsInvalidKeeps
  <1>4. CASE \E recordable \in BOOLEAN : save(t, recordable)
    BY <1>4, SaveKeeps
  <1>5. CASE \E p \in Paths : edit(t, p) \/ moveEditHistory(t, p)
    BY <1>5, EditKeeps, MoveEditHistoryKeeps
  <1>6. CASE \E e \in tab[t].conflicts, resolution \in {"latest", "mine"} :
               resolveRecoveryConflict(t, e, resolution)
    BY <1>6, ResolveKeeps
  <1> QED BY <1>1, <1>2, <1>3, <1>4, <1>5, <1>6 DEF TabStep

\* What holds between the documents, the outbox, the requests and the server in
\* every state of the editor.
THEOREM EditorInvariant == EditorSpec => []EditorInv
  <1>1. EditorInit => EditorInv
    BY InitOK
  <1>2. EditorInv /\ [EditorNext]_editorVars => EditorInv'
    <2> SUFFICES ASSUME EditorInv, [EditorNext]_editorVars PROVE EditorInv'
      OBVIOUS
    <2>1. CASE \E t \in Tabs : TabStep(t)
      BY <2>1, TabStepKeeps
    <2>2. CASE \E attempt \in requests : persist(attempt)
      BY <2>2, PersistKeeps
    <2>3. CASE \E p \in Paths : SaveElsewhere(p)
      BY <2>3, SaveElsewhereKeeps
    <2>4. CASE UNCHANGED editorVars
      BY <2>4, StutterOK
    <2> QED BY <2>1, <2>2, <2>3, <2>4 DEF EditorNext
  <1> QED BY <1>1, <1>2, PTL DEF EditorSpec

\* A document names a revision there is and shows as saved what that revision holds;
\* a save has an attempt and a receipt a revision.
THEOREM EditorTypeCorrect == EditorSpec => []EditorTypeOK
  <1>1. EditorInv => EditorTypeOK
    <2> SUFFICES ASSUME EditorInv PROVE EditorTypeOK
      OBVIOUS
    <2>1. RowTypes /\ ServerOK /\ made \in Nat /\ made <= MaxEdits /\ MaxEdits \in Nat
      BY EditorAssumption DEF EditorInv, RowTypes
    <2>2. ASSUME NEW t \in Tabs
          PROVE  /\ tab[t].persisted \in 1..Head1
                 /\ tab[t].working \in [Paths -> 0..MaxEdits]
                 /\ tab[t].status = "saved" => tab[t].working = history[tab[t].persisted]
                 /\ tab[t].status = "saving" => tab[t].attempt.key \in 1..keys
                 /\ tab[t].conflicts \subseteq tab[t].pending
      <3>1. TabOK(tab[t], outbox[t]) /\ tab[t].working \in [Paths -> Nat]
            /\ tab[t].attempt \in AttemptRows /\ Known(tab[t].attempt)
        BY <2>1, RowFields DEF EditorInv, ScopesOK, Known
      <3>2. tab[t].working \in [Paths -> 0..MaxEdits]
        <4>1. \A p \in Paths : tab[t].working[p] \in 0..MaxEdits
          BY <2>1, <3>1 DEF TabOK, WorkOK
        <4> QED BY <3>1, <4>1
      <3>3. tab[t].status = "saving" => tab[t].attempt.key \in 1..keys
        BY <3>1 DEF TabOK, PhaseOK, EditorInv, AttemptsOK, AttemptOK
      <3> QED BY <3>1, <3>2, <3>3 DEF TabOK, WorkOK, ConflictsOK
    <2>3. \A k \in 1..MaxAttempts : receipts[k] \in 0..Head1
      BY <2>1 DEF RowTypes, ServerOK, Head1
    <2> QED BY <2>2, <2>3 DEF EditorTypeOK
  <1> QED BY <1>1, EditorInvariant, PTL

\* Whatever documents close, whichever requests land late and whoever recovers
\* the records of others: an edit the outbox has taken, while nobody was reading
\* it, is in a record or in a revision until its owner gives it up.
THEOREM SettledEditsSurvive == EditorSpec => []SettledEditSurvives
  <1>1. EditorInv => SettledEditSurvives
    BY DEF EditorInv
  <1> QED BY <1>1, EditorInvariant, PTL

\* A request that is saved changes only fields whose stored value its owner saw.
LEMMA PersistSeen ==
    ASSUME EditorInv, NEW attempt \in requests, persist(attempt), Len(history') > Len(history),
           NEW p \in Paths, history'[Len(history')][p] # history[Head1][p]
    PROVE  /\ history'[Len(history')][p] # 0
           /\ history[Head1][p] \in seen'[history'[Len(history')][p]]
  <1>1. /\ RowTypes /\ attempt \in AttemptRows /\ attempt # NoAttempt /\ AttemptOK(attempt)
        /\ Head1 \in Nat /\ seen' = seen
    BY DEF EditorInv, RowTypes, Known, AttemptsOK, persist, Head1
  <1>2. attempt.base = Head1 /\ history' = Append(history, Result(attempt))
    BY DEF persist
  <1>3. history'[Len(history')] = Result(attempt)
    BY <1>1, <1>2 DEF RowTypes
  <1>4. PICK e \in attempt.edits : e.path = p /\ Result(attempt)[p] = e.value
    <2>1. \E e \in attempt.edits : e.path = p
      BY <1>2, <1>3 DEF Result
    <2> QED BY <2>1 DEF Result
  <1>5. e.base = history[Head1][p] /\ e.value \in 1..made /\ e.base \in seen[e.value]
    BY <1>1, <1>2, <1>4 DEF AttemptOK, EditsOK
  <1> QED BY <1>1, <1>3, <1>4, <1>5

\* No revision replaces work its owner has not seen: not by a late request, not by
\* a retried one, not by an edit recovered from another document.
THEOREM UnseenKept == EditorSpec => ReplacesOnlySeen
  <1> DEFINE Seen == Len(history') > Len(history) =>
                       \A p \in Paths :
                          LET old == history[Head1][p]
                              new == history'[Len(history')][p]
                          IN new # old => new # 0 /\ old \in seen'[new]
  <1>1. EditorInv /\ [EditorNext]_editorVars => [Seen]_<<history, seen>>
    <2> SUFFICES ASSUME EditorInv, EditorNext, Len(history') > Len(history), NEW p \in Paths,
                        history'[Len(history')][p] # history[Head1][p]
                 PROVE  /\ history'[Len(history')][p] # 0
                        /\ history[Head1][p] \in seen'[history'[Len(history')][p]]
      BY DEF editorVars, serverVars
    <2>1. Len(history) \in Nat /\ history' # history
      BY DEF EditorInv, RowTypes
    <2>2. ~ \E t \in Tabs : TabStep(t)
      BY <2>1, TabStepHistory
    <2>3. CASE \E attempt \in requests : persist(attempt)
      BY <2>3, PersistSeen
    <2>4. CASE \E q \in Paths : SaveElsewhere(q)
      <3>1. PICK q \in Paths : SaveElsewhere(q)
        BY <2>4
      <3>2. /\ history[Head1][q] \in seen'[made']
            /\ history'[Len(history')] = [history[Head1] EXCEPT ![q] = made']
        BY <3>1, SaveElsewhereKeeps
      <3>3. made' = made + 1 /\ made \in Nat /\ history[Head1] \in [Paths -> Nat]
        BY <3>1 DEF SaveElsewhere, EditorInv, RowTypes, Head1
      <3>4. p = q /\ history'[Len(history')][p] = made'
        BY <3>2, <3>3
      <3> QED BY <3>2, <3>3, <3>4
    <2> QED BY <2>2, <2>3, <2>4 DEF EditorNext
  <1> QED BY <1>1, EditorInvariant, PTL DEF EditorSpec, ReplacesOnlySeen
=============================================================================
