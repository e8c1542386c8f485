-------------------------- MODULE MediaAssetsProofs --------------------------
(***************************************************************************)
(* Theorems about MediaAssets, for any number of attempts, idempotency     *)
(* keys, assets, photos and revisions.                                     *)
(***************************************************************************)
EXTENDS MediaAssets, TLAPS

-----------------------------------------------------------------------------
(* The inductive invariant *)

Over == {"done", "failed"}
Uploading == {"loading", "recording", "putting", "thumbing", "renewing", "creating"}
Placing == {"cropping", "saving"}
Removing == {"deleting", "clearing", "ending", "completing"}
Deleting == {"beginning", "reserving", "adopting", "tombstoning"} \cup Removing
Stored == {"thumbing", "renewing", "creating"}

\* An attempt takes the steps of its own command.  A deletion is of an asset that
\* exists, and removes objects only of a deleted one; an upload on its way to a
\* row of its own has its photo in the bucket, and one that only records what it
\* found has found its photo.
FitsAt(t, step) ==
    /\ step \in Uploading => body[t].kind = "upload"
    /\ step \in Placing => body[t].kind \in {"replace", "crop"}
    /\ step \in Deleting => body[t].kind = "delete"
    /\ step \in Deleting \ {"beginning"} => Exists(Photo(t))
    /\ step \in Removing => asset[Photo(t)].deleted
    /\ step = "recording" => asset[Photo(t)].source = body[t].source
    /\ step \in Stored /\ ~Exists(Photo(t)) =>
          bucket[<<Photo(t), "source">>] = body[t].source

AttemptFits(t) == FitsAt(t, pc[t])

AttemptsFit == \A t \in Attempts : AttemptFits(t)

\* What is deleted was uploaded once.
DeletedWasThere == \A a \in Assets : asset[a].deleted => asset[a].source # Nothing

\* The claim of a key that has a receipt is there for good, and whoever holds it
\* has ended.
ReceiptEndsClaim ==
    \A k \in Keys : receipt[k] # NoBody =>
        /\ mediaClaim[k] # NoMediaClaim
        /\ \A t \in Attempts : key[t] = k /\ mediaClaim[k].token = t => pc[t] \in Over

\* What request b of key k asks for has been done.
Carried(k, b) ==
    /\ b.kind = "upload" => asset[b.asset].source = b.source
    /\ b.kind = "delete" => asset[b.asset].deleted
    /\ b.kind \in {"replace", "crop"} =>
          \E i \in DOMAIN revisions : revisions[i].key = k /\ revisions[i].asset = b.asset

ReceiptIsTrue == \A k \in Keys : receipt[k] # NoBody => Carried(k, receipt[k])

\* Every revision has the receipt of its key, and a key one revision.
RevisionHasReceipt ==
    /\ \A i \in DOMAIN revisions : receipt[revisions[i].key] # NoBody
    /\ \A i, j \in DOMAIN revisions : revisions[i].key = revisions[j].key => i = j

\* A call that succeeded has the receipt of its request.
DoneHasReceipt == \A t \in Attempts : pc[t] = "done" => receipt[key[t]] = body[t]

\* Claims are made by attempts that were called.
ClaimWasCalled == \A k \in Keys : \A t \in Attempts : mediaClaim[k].token = t => pc[t] # "new"

RequestInv == /\ ReceiptEndsClaim /\ ReceiptIsTrue /\ RevisionHasReceipt
              /\ DoneHasReceipt /\ ClaimWasCalled

LibraryInv == LibraryIsWhole /\ DeletedWasThere

MediaInv == MediaTypeOK /\ AttemptsFit /\ LibraryInv /\ RequestInv

-----------------------------------------------------------------------------
(* Types *)

AssetRows == [source : Sources \cup {Nothing}, deleted : BOOLEAN]
Deletions == [key : Keys, body : Delete] \cup {NoRequest}
Placements == [asset : Assets, key : Keys]
Claims == [body : Commands, token : Attempts, fresh : BOOLEAN] \cup {NoMediaClaim}
Steps == Working \cup Waiting \cup {"new", "done", "failed"}

LibraryOK == /\ asset \in [Assets -> AssetRows]
             /\ reservation \in [Assets -> Deletions]
             /\ revisions \in Seq(Placements)
             /\ Len(revisions) <= MaxRevisions
BucketOK == bucket \in [Objects -> Sources \cup {Nothing}]
RequestsOK == /\ mediaClaim \in [Keys -> Claims]
              /\ receipt \in [Keys -> Commands \cup {NoBody}]
AttemptsOK == /\ pc \in [Attempts -> Steps]
              /\ key \in [Attempts -> Keys \cup {Nothing}]
              /\ body \in [Attempts -> Commands \cup {NoBody}]
              /\ \A t \in Attempts : pc[t] # "new" => key[t] \in Keys /\ body[t] \in Commands

MediaTypes == LibraryOK /\ BucketOK /\ RequestsOK /\ AttemptsOK

LEMMA MediaTypesAre == MediaTypeOK <=> MediaTypes
  BY Zenon DEF MediaTypeOK, MediaTypes, LibraryOK, BucketOK, RequestsOK, AttemptsOK,
               AssetRows, Deletions, Placements, Claims, Steps

LEMMA MediaTypesWillBe == MediaTypeOK' <=> MediaTypes'
  BY Zenon DEF MediaTypeOK, MediaTypes, LibraryOK, BucketOK, RequestsOK, AttemptsOK,
               AssetRows, Deletions, Placements, Claims, Steps

LEMMA CommandFields ==
    ASSUME NEW b \in Commands
    PROVE  /\ b # NoBody /\ b.asset \in Assets
           /\ b.kind \in {"upload", "replace", "crop", "delete"}
           /\ b.kind = "upload" => b.source \in Sources
           /\ b.kind \in {"replace", "crop"} => b.base \in 0 .. (MaxRevisions - 1)
           /\ b.kind = "delete" => b \in Delete
  BY MediaAssumption DEF Commands, Upload, Place, Delete, NoBody

\* What an attempt that was called knows of itself.
LEMMA CalledFields ==
    ASSUME AttemptsOK, NEW t \in Attempts, pc[t] # "new"
    PROVE  /\ key[t] \in Keys /\ body[t] \in Commands /\ body[t] # NoBody
           /\ Photo(t) \in Assets
           /\ body[t].kind \in {"upload", "replace", "crop", "delete"}
           /\ body[t].kind = "upload" => body[t].source \in Sources
           /\ body[t].kind \in {"replace", "crop"} => body[t].base \in 0 .. (MaxRevisions - 1)
           /\ body[t].kind = "delete" => Request(t) \in Deletions /\ Request(t) # NoRequest
<1>1. key[t] \in Keys /\ body[t] \in Commands
  BY DEF AttemptsOK
<1>2. body[t].kind = "delete" => Request(t) \in Deletions /\ Request(t) # NoRequest
  BY <1>1, CommandFields, MediaAssumption DEF Request, Deletions, NoRequest
<1> QED BY <1>1, <1>2, CommandFields DEF Photo

LEMMA ExistsIsPhoto ==
    ASSUME LibraryOK, DeletedWasThere, NEW a \in Assets
    PROVE  /\ Exists(a) <=> asset[a].source \in Sources
           /\ ~Exists(a) => asset[a].source = Nothing /\ ~asset[a].deleted
  BY MediaAssumption DEF LibraryOK, AssetRows, DeletedWasThere, Exists, NoAsset

\* An attempt goes on.
LEMMA AttemptGoes ==
    ASSUME AttemptsOK, NEW t \in Attempts, pc[t] # "new", NEW next \in Steps \ {"new"}, Goes(t, next),
           UNCHANGED attemptVars
    PROVE  /\ AttemptsOK'
           /\ pc'[t] = next
           /\ \A u \in Attempts \ {t} : pc'[u] = pc[u]
  BY DEF AttemptsOK, Goes, attemptVars

LEMMA MediaTypesKept ==
    ASSUME MediaTypes
    PROVE  /\ UNCHANGED libraryVars => LibraryOK'
           /\ UNCHANGED bucket => BucketOK'
           /\ UNCHANGED requestVars => RequestsOK'
           /\ UNCHANGED <<pc, attemptVars>> => AttemptsOK'
  BY DEF MediaTypes, LibraryOK, BucketOK, RequestsOK, AttemptsOK, libraryVars, requestVars, attemptVars
-----------------------------------------------------------------------------
(* What every step leaves as it is *)

\* Photos stay what they are, tombstones stay, and revisions stay where they are.
LibraryGrows ==
    /\ \A a \in Assets : Exists(a) => Exists(a)' /\ asset'[a].source = asset[a].source
    /\ \A a \in Assets : asset[a].deleted => asset'[a].deleted
    /\ \A i \in DOMAIN revisions : i \in DOMAIN revisions' /\ revisions'[i] = revisions[i]

\* The photo of an asset that has no row is not removed.
BucketKeeps ==
    \A a \in Assets : ~Exists(a)' /\ bucket[<<a, "source">>] # Nothing =>
        bucket'[<<a, "source">>] = bucket[<<a, "source">>]

LEMMA OthersFit ==
    ASSUME MediaTypes, AttemptsFit, LibraryGrows, BucketKeeps, NEW u \in Attempts,
           pc'[u] = pc[u], body' = body
    PROVE  AttemptFits(u)'
<1>1. CASE pc[u] = "new"
  BY <1>1 DEF AttemptFits, FitsAt, Uploading, Placing, Deleting, Removing, Stored
<1>2. CASE pc[u] # "new"
  <2>1. AttemptFits(u) /\ Photo(u)' = Photo(u)
    BY DEF AttemptsFit, Photo
  <2>2. Photo(u) \in Assets /\ (body[u].kind = "upload" => body[u].source \in Sources)
    BY <1>2, CalledFields DEF MediaTypes
  <2>3. pc[u] = "recording" => asset'[Photo(u)].source = body[u].source
    <3>1. SUFFICES ASSUME pc[u] = "recording" PROVE asset'[Photo(u)].source = body[u].source
      OBVIOUS
    <3>2. asset[Photo(u)].source = body[u].source /\ body[u].source \in Sources
      BY <2>1, <2>2, <3>1 DEF AttemptFits, FitsAt, Uploading
    <3>3. Exists(Photo(u))
      BY <3>2, MediaAssumption DEF Exists, NoAsset
    <3> QED BY <2>2, <3>2, <3>3 DEF LibraryGrows
  <2>4. pc[u] \in Stored /\ ~Exists(Photo(u))' => bucket'[<<Photo(u), "source">>] = body[u].source
    <3>1. SUFFICES ASSUME pc[u] \in Stored, ~Exists(Photo(u))'
                   PROVE  bucket'[<<Photo(u), "source">>] = body[u].source
      OBVIOUS
    <3>2. ~Exists(Photo(u)) /\ ~(Exists(Photo(u)))'
      BY <2>1, <2>2, <3>1 DEF LibraryGrows
    <3>3. bucket[<<Photo(u), "source">>] = body[u].source /\ body[u].source \in Sources
      BY <2>1, <2>2, <3>1, <3>2 DEF AttemptFits, FitsAt, Stored, Uploading
    <3> QED BY <2>1, <2>2, <3>1, <3>3, MediaAssumption DEF BucketKeeps
  <2>5. pc[u] \in Deleting \ {"beginning"} => Exists(Photo(u))'
    BY <2>1, <2>2 DEF AttemptFits, FitsAt, LibraryGrows
  <2>6. pc[u] \in Removing => asset'[Photo(u)].deleted
    BY <2>1, <2>2 DEF AttemptFits, FitsAt, LibraryGrows
  <2> QED BY <2>1, <2>3, <2>4, <2>5, <2>6 DEF AttemptFits, FitsAt
<1> QED BY <1>1, <1>2

-----------------------------------------------------------------------------
(* Receipts and claims *)

LEMMA RevisionFields ==
    ASSUME LibraryOK, NEW i \in DOMAIN revisions
    PROVE  revisions[i].asset \in Assets /\ revisions[i].key \in Keys
<1>1. revisions[i] \in Placements
  BY DEF LibraryOK
<1> QED BY <1>1 DEF Placements

LEMMA CarriedStays ==
    ASSUME MediaTypes, LibraryGrows, NEW k \in Keys, NEW b \in Commands, Carried(k, b)
    PROVE  Carried(k, b)'
<1>1. b.asset \in Assets /\ (b.kind = "upload" => b.source \in Sources)
  BY CommandFields
<1>2. ASSUME b.kind = "upload" PROVE asset'[b.asset].source = b.source
  <2>1. asset[b.asset].source = b.source /\ Exists(b.asset)
    BY <1>1, <1>2, MediaAssumption DEF Carried, Exists, NoAsset
  <2> QED BY <1>1, <2>1 DEF LibraryGrows
<1>3. ASSUME b.kind = "delete" PROVE asset'[b.asset].deleted
  BY <1>1, <1>3 DEF Carried, LibraryGrows
<1>4. ASSUME b.kind \in {"replace", "crop"}
      PROVE  \E i \in DOMAIN revisions' : revisions'[i].key = k /\ revisions'[i].asset = b.asset
  BY <1>4 DEF Carried, LibraryGrows
<1> QED BY <1>2, <1>3, <1>4 DEF Carried

\* A step that writes no receipt and no revision, and takes no claim of a key
\* that has its receipt.
LEMMA RequestsKept ==
    ASSUME MediaTypes, RequestInv, LibraryGrows, UNCHANGED <<revisions, receipt, key, body>>,
           \A k \in Keys : receipt[k] # NoBody =>
               mediaClaim'[k] # NoMediaClaim /\ mediaClaim'[k].token = mediaClaim[k].token,
           \A k \in Keys : \A t \in Attempts : mediaClaim'[k].token = t =>
               mediaClaim[k].token = t \/ pc'[t] # "new",
           \A u \in Attempts : /\ pc[u] \in Over => pc'[u] = pc[u]
                               /\ pc'[u] = "new" => pc[u] = "new"
                               /\ pc'[u] = "done" => pc[u] = "done" \/ Replayed(u)
    PROVE  RequestInv'
<1>1. ReceiptEndsClaim'
  BY DEF RequestInv, ReceiptEndsClaim
<1>2. ReceiptIsTrue'
  <2>1. ASSUME NEW k \in Keys, receipt[k] # NoBody PROVE Carried(k, receipt[k])'
    <3>1. receipt[k] \in Commands /\ Carried(k, receipt[k])
      BY <2>1 DEF RequestInv, ReceiptIsTrue, MediaTypes, RequestsOK
    <3>2. \A b \in Commands : Carried(k, b) => Carried(k, b)'
      BY CarriedStays
    <3> QED BY <3>1, <3>2 DEF Carried
  <2> QED BY <2>1 DEF ReceiptIsTrue
<1>3. RevisionHasReceipt'
  BY DEF RequestInv, RevisionHasReceipt
<1>4. DoneHasReceipt'
  BY DEF RequestInv, DoneHasReceipt, Replayed
<1>5. ClaimWasCalled'
  BY DEF RequestInv, ClaimWasCalled
<1> QED BY <1>1, <1>2, <1>3, <1>4, <1>5 DEF RequestInv

\* While the holder of a claim works, its key has no receipt.
LEMMA HolderHasNoReceipt ==
    ASSUME MediaTypes, RequestInv, NEW t \in Attempts, HoldsClaim(t), pc[t] \notin Over \cup {"new"}
    PROVE  ~ReceiptExists(t)
<1>1. key[t] \in Keys
  BY CalledFields DEF MediaTypes
<1> QED BY <1>1 DEF RequestInv, ReceiptEndsClaim, HoldsClaim, ReceiptExists

\* The receipt is written with what it tells, and its writer ends.
LEMMA ReceiptIsWritten ==
    ASSUME MediaTypes, RequestInv, LibraryGrows, NEW t \in Attempts, HoldsClaim(t),
           pc[t] \notin Over \cup {"new"}, pc'[t] = "done",
           \A u \in Attempts \ {t} : pc'[u] = pc[u],
           Receipted(t), Carried(key[t], body[t])', UNCHANGED <<mediaClaim, key, body>>,
           \/ revisions' = revisions
           \/ revisions' = Append(revisions, [asset |-> Photo(t), key |-> key[t]])
    PROVE  RequestInv' /\ RequestsOK'
<1>1. key[t] \in Keys /\ body[t] \in Commands /\ body[t] # NoBody
  BY CalledFields DEF MediaTypes
<1>2. receipt[key[t]] = NoBody
  BY HolderHasNoReceipt DEF ReceiptExists
<1>3. receipt' = [receipt EXCEPT ![key[t]] = body[t]]
  BY <1>2 DEF Receipted, ReceiptExists
<1>4. \A k \in Keys : receipt'[k] = IF k = key[t] THEN body[t] ELSE receipt[k]
  BY <1>1, <1>3 DEF MediaTypes, RequestsOK
<1>5. RequestsOK'
  BY <1>1, <1>3 DEF MediaTypes, RequestsOK
<1>6. ReceiptEndsClaim'
  <2>1. mediaClaim[key[t]] # NoMediaClaim
    BY <1>1 DEF HoldsClaim, NoMediaClaim
  <2>2. ASSUME NEW k \in Keys, receipt'[k] # NoBody, NEW u \in Attempts, key[u] = k,
               mediaClaim[k].token = u
        PROVE  pc'[u] \in Over
    <3>1. CASE u = t
      BY <3>1 DEF Over
    <3>2. CASE u # t
      BY <1>4, <2>2, <3>2 DEF HoldsClaim, RequestInv, ReceiptEndsClaim
    <3> QED BY <3>1, <3>2
  <2>3. \A k \in Keys : receipt'[k] # NoBody => mediaClaim[k] # NoMediaClaim
    BY <1>4, <2>1 DEF RequestInv, ReceiptEndsClaim
  <2> QED BY <2>2, <2>3 DEF ReceiptEndsClaim
<1>7. ReceiptIsTrue'
  <2>1. ASSUME NEW k \in Keys, receipt'[k] # NoBody PROVE Carried(k, receipt[k])'
    <3>1. CASE k = key[t]
      BY <1>4, <3>1 DEF Carried
    <3>2. CASE k # key[t]
      <4>1. receipt'[k] = receipt[k] /\ receipt[k] \in Commands /\ Carried(k, receipt[k])
        BY <1>4, <2>1, <3>2 DEF RequestInv, ReceiptIsTrue, MediaTypes, RequestsOK
      <4>2. \A b \in Commands : Carried(k, b) => Carried(k, b)'
        BY CarriedStays
      <4> QED BY <4>1, <4>2 DEF Carried
    <3> QED BY <3>1, <3>2
  <2> QED BY <2>1 DEF ReceiptIsTrue
<1>8. RevisionHasReceipt'
  <2>1. \A i \in DOMAIN revisions : revisions[i].key \in Keys /\ revisions[i].key # key[t]
    <3>1. ASSUME NEW i \in DOMAIN revisions PROVE revisions[i].key \in Keys
      BY RevisionFields DEF MediaTypes
    <3>2. ASSUME NEW i \in DOMAIN revisions PROVE revisions[i].key # key[t]
      BY <1>2, <3>2 DEF RequestInv, RevisionHasReceipt
    <3> QED BY <3>1, <3>2
  <2>2. CASE revisions' = revisions
    BY <1>4, <2>1, <2>2 DEF RequestInv, RevisionHasReceipt
  <2>3. CASE revisions' = Append(revisions, [asset |-> Photo(t), key |-> key[t]])
    <3>1. /\ DOMAIN revisions' = DOMAIN revisions \cup {Len(revisions) + 1}
          /\ \A i \in DOMAIN revisions : revisions'[i] = revisions[i]
          /\ revisions'[Len(revisions) + 1].key = key[t]
      BY <2>3 DEF MediaTypes, LibraryOK
    <3> QED BY <1>1, <1>4, <2>1, <3>1 DEF RequestInv, RevisionHasReceipt
  <2> QED BY <2>2, <2>3
<1>9. DoneHasReceipt'
  <2>1. ASSUME NEW u \in Attempts, pc'[u] = "done" PROVE receipt'[key[u]] = body[u]
    <3>1. CASE u = t
      BY <1>1, <1>4, <3>1
    <3>2. CASE u # t
      <4>1. pc[u] = "done" /\ receipt[key[u]] = body[u] /\ key[u] \in Keys /\ body[u] # NoBody
        BY <2>1, <3>2, CalledFields DEF RequestInv, DoneHasReceipt, MediaTypes
      <4> QED BY <1>2, <1>4, <4>1
    <3> QED BY <3>1, <3>2
  <2> QED BY <2>1 DEF DoneHasReceipt
<1>10. ClaimWasCalled'
  BY DEF RequestInv, ClaimWasCalled
<1> QED BY <1>5, <1>6, <1>7, <1>8, <1>9, <1>10 DEF RequestInv

-----------------------------------------------------------------------------
(* The shapes of a step *)

LEMMA MediaInvWillBe ==
    ASSUME MediaTypes', AttemptsFit', LibraryInv', RequestInv'
    PROVE  MediaInv'
  BY MediaTypesWillBe, Zenon DEF MediaInv

LEMMA MediaInvParts ==
    ASSUME MediaInv
    PROVE  /\ MediaTypes /\ LibraryOK /\ BucketOK /\ RequestsOK /\ AttemptsOK
           /\ AttemptsFit /\ LibraryInv /\ DeletedWasThere /\ RequestInv
  BY MediaTypesAre DEF MediaInv, MediaTypes, LibraryInv

LEMMA EverythingFits ==
    ASSUME MediaInv, LibraryGrows, BucketKeeps, NEW t \in Attempts, AttemptFits(t)',
           \A u \in Attempts \ {t} : pc'[u] = pc[u], body' = body
    PROVE  AttemptsFit'
<1>1. ASSUME NEW u \in Attempts, u # t PROVE AttemptFits(u)'
  BY <1>1, OthersFit, MediaInvParts
<1> QED BY <1>1 DEF AttemptsFit

\* An attempt goes on, and perhaps its claim changes.
LEMMA AttemptMoves ==
    ASSUME MediaInv, NEW t \in Attempts, pc[t] \notin Over \cup {"new"},
           NEW next \in Steps \ {"new"}, Goes(t, next),
           UNCHANGED <<libraryVars, bucket, receipt, attemptVars>>,
           FitsAt(t, next), next = "done" => Replayed(t),
           \/ UNCHANGED mediaClaim
           \/ /\ ~ReceiptExists(t)
              /\ \E claim \in Claims :
                    /\ mediaClaim' = [mediaClaim EXCEPT ![key[t]] = claim]
                    /\ claim.token \in {t, Nothing, mediaClaim[key[t]].token}
    PROVE  MediaInv'
<1>0. MediaTypes /\ LibraryOK /\ BucketOK /\ RequestsOK /\ AttemptsOK /\ RequestInv
  BY MediaInvParts
<1>1. /\ AttemptsOK'
      /\ pc'[t] = next
      /\ \A u \in Attempts \ {t} : pc'[u] = pc[u]
  BY <1>0, AttemptGoes
<1>2. UNCHANGED <<asset, reservation, revisions, bucket, receipt, key, body>>
  BY DEF libraryVars, attemptVars
<1>3. LibraryGrows /\ BucketKeeps /\ LibraryInv'
  BY <1>2, MediaInvParts DEF LibraryGrows, BucketKeeps, Exists, LibraryInv, LibraryIsWhole,
     DeletedWasThere, getAsset, Reserved
<1>4. AttemptFits(t)'
  BY <1>1, <1>2 DEF AttemptFits, FitsAt, Exists, Photo
<1>5. AttemptsFit'
  BY <1>1, <1>2, <1>3, <1>4, EverythingFits
<1>6. key[t] \in Keys
  BY <1>0, CalledFields
<1>7. /\ RequestsOK'
      /\ \A k \in Keys : receipt[k] # NoBody =>
             mediaClaim'[k] # NoMediaClaim /\ mediaClaim'[k].token = mediaClaim[k].token
      /\ \A k \in Keys : \A u \in Attempts : mediaClaim'[k].token = u =>
             mediaClaim[k].token = u \/ u = t
  <2>1. CASE UNCHANGED mediaClaim
    BY <1>0, <1>2, <2>1 DEF RequestsOK, RequestInv, ReceiptEndsClaim
  <2>2. CASE /\ ~ReceiptExists(t)
             /\ \E claim \in Claims :
                   /\ mediaClaim' = [mediaClaim EXCEPT ![key[t]] = claim]
                   /\ claim.token \in {t, Nothing, mediaClaim[key[t]].token}
    <3>1. PICK claim \in Claims : /\ mediaClaim' = [mediaClaim EXCEPT ![key[t]] = claim]
                                  /\ claim.token \in {t, Nothing, mediaClaim[key[t]].token}
      BY <2>2
    <3>2. /\ mediaClaim'[key[t]] = claim
          /\ \A k \in Keys \ {key[t]} : mediaClaim'[k] = mediaClaim[k]
          /\ RequestsOK'
      BY <1>0, <1>2, <1>6, <3>1 DEF RequestsOK
    <3>3. receipt[key[t]] = NoBody
      BY <2>2 DEF ReceiptExists
    <3> QED BY <1>0, <3>1, <3>2, <3>3, MediaAssumption DEF RequestInv, ReceiptEndsClaim
  <2> QED BY <2>1, <2>2
<1>8. RequestInv'
  BY <1>0, <1>1, <1>2, <1>3, <1>7, RequestsKept
<1>9. MediaTypes'
  BY <1>0, <1>1, <1>7, MediaTypesKept DEF MediaTypes
<1> QED BY <1>3, <1>5, <1>8, <1>9, MediaInvWillBe

\* A claim is renewed or runs out.
LEMMA ClaimAges ==
    ASSUME MediaInv, NEW k \in Keys, NEW fresh \in BOOLEAN, mediaClaim[k] # NoMediaClaim,
           mediaClaim' = [mediaClaim EXCEPT ![k].fresh = fresh],
           UNCHANGED <<libraryVars, receipt, bucket, pc, attemptVars>>
    PROVE  MediaInv'
<1>0. MediaTypes /\ RequestsOK /\ RequestInv
  BY MediaInvParts
<1>1. UNCHANGED <<asset, reservation, revisions, bucket, receipt, pc, key, body>>
  BY DEF libraryVars, attemptVars
<1>2. LibraryGrows /\ LibraryInv' /\ AttemptsFit'
  BY <1>1, MediaInvParts DEF LibraryGrows, Exists, LibraryInv, LibraryIsWhole, AttemptsFit,
     AttemptFits, FitsAt, Photo, DeletedWasThere, getAsset, Reserved
<1>3. mediaClaim[k] \in [body : Commands, token : Attempts, fresh : BOOLEAN]
  BY <1>0 DEF RequestsOK, Claims
<1>4. /\ mediaClaim'[k] \in [body : Commands, token : Attempts, fresh : BOOLEAN]
      /\ mediaClaim'[k].token = mediaClaim[k].token
      /\ \A j \in Keys \ {k} : mediaClaim'[j] = mediaClaim[j]
      /\ mediaClaim' \in [Keys -> Claims]
  BY <1>0, <1>3 DEF RequestsOK, Claims
<1>5. mediaClaim'[k] # NoMediaClaim
  BY <1>4, MediaAssumption DEF NoMediaClaim
<1>6. RequestInv'
  <2>1. \A j \in Keys : receipt[j] # NoBody =>
            mediaClaim'[j] # NoMediaClaim /\ mediaClaim'[j].token = mediaClaim[j].token
    BY <1>0, <1>4, <1>5 DEF RequestInv, ReceiptEndsClaim
  <2>2. \A j \in Keys : mediaClaim'[j].token = mediaClaim[j].token
    BY <1>4
  <2> QED BY <1>0, <1>1, <1>2, <2>1, <2>2, RequestsKept
<1>7. MediaTypes'
  BY <1>0, <1>1, <1>4, MediaTypesKept DEF MediaTypes, RequestsOK
<1> QED BY <1>2, <1>6, <1>7, MediaInvWillBe

\* A step on a row or an object that writes no receipt.
LEMMA LibraryMoves ==
    ASSUME MediaInv, NEW t \in Attempts, pc[t] \notin Over \cup {"new"},
           NEW next \in Steps \ {"new", "done"}, Goes(t, next),
           UNCHANGED <<revisions, requestVars, attemptVars>>,
           LibraryGrows, BucketKeeps, LibraryOK', BucketOK', LibraryInv', FitsAt(t, next)'
    PROVE  MediaInv'
<1>0. MediaTypes /\ AttemptsOK /\ RequestInv
  BY MediaInvParts
<1>1. /\ AttemptsOK'
      /\ pc'[t] = next
      /\ \A u \in Attempts \ {t} : pc'[u] = pc[u]
  BY <1>0, AttemptGoes
<1>2. UNCHANGED <<revisions, mediaClaim, receipt, key, body>>
  BY DEF requestVars, attemptVars
<1>3. AttemptsFit'
  <2>1. AttemptFits(t)'
    BY <1>1 DEF AttemptFits
  <2> QED BY <1>1, <1>2, <2>1, EverythingFits
<1>4. RequestInv'
  BY <1>0, <1>1, <1>2, RequestsKept DEF RequestInv, ReceiptEndsClaim
<1>5. MediaTypes'
  BY <1>0, <1>1, MediaTypesKept DEF MediaTypes
<1> QED BY <1>3, <1>4, <1>5, MediaInvWillBe

\* The step that does what was asked for, with its receipt.
LEMMA ReceiptMoves ==
    ASSUME MediaInv, NEW t \in Attempts, pc[t] \notin Over \cup {"new"}, HoldsClaim(t),
           Goes(t, "done"), Receipted(t), Carried(key[t], body[t])',
           UNCHANGED <<mediaClaim, attemptVars>>,
           \/ revisions' = revisions
           \/ revisions' = Append(revisions, [asset |-> Photo(t), key |-> key[t]]),
           LibraryGrows, BucketKeeps, LibraryOK', BucketOK', LibraryInv'
    PROVE  MediaInv'
<1>0. MediaTypes /\ AttemptsOK /\ RequestInv
  BY MediaInvParts
<1>1. /\ AttemptsOK'
      /\ pc'[t] = "done"
      /\ \A u \in Attempts \ {t} : pc'[u] = pc[u]
  <2>1. "done" \in Steps \ {"new"}
    BY DEF Steps
  <2> QED BY <1>0, <2>1, AttemptGoes DEF Over
<1>2. UNCHANGED <<mediaClaim, key, body>>
  BY DEF attemptVars
<1>3. AttemptsFit'
  <2>1. AttemptFits(t)'
    BY <1>1 DEF AttemptFits, FitsAt, Uploading, Placing, Deleting, Removing, Stored
  <2> QED BY <1>1, <1>2, <2>1, EverythingFits
<1>4. RequestInv' /\ RequestsOK'
  BY <1>0, <1>1, <1>2, ReceiptIsWritten
<1>5. MediaTypes'
  BY <1>1, <1>4 DEF MediaTypes
<1> QED BY <1>3, <1>4, <1>5, MediaInvWillBe

-----------------------------------------------------------------------------
(* Steps that claim, read and end *)

\* An attempt that waits, fails or ends has no step of its command to fit.
LEMMA FitsNowhere ==
    ASSUME NEW t, NEW step \in Waiting \cup {"done", "failed"}
    PROVE  FitsAt(t, step) /\ step \in Steps \ {"new"}
  BY DEF FitsAt, Waiting, Uploading, Placing, Deleting, Removing, Stored, Steps

LEMMA AttemptStops ==
    ASSUME MediaInv, NEW t \in Attempts, pc[t] \notin Over \cup {"new"},
           NEW next \in Waiting \cup {"failed"}, Goes(t, next),
           UNCHANGED <<libraryVars, bucket, requestVars, attemptVars>>
    PROVE  MediaInv'
<1>1. next # "done"
  BY DEF Waiting
<1> QED BY <1>1, FitsNowhere, AttemptMoves DEF requestVars

LEMMA AttemptFails ==
    ASSUME MediaInv, NEW t \in Attempts, pc[t] \notin Over \cup {"new"}, Fails(t),
           UNCHANGED <<libraryVars, bucket, requestVars, attemptVars>>
    PROVE  MediaInv'
<1>1. "releasing" \in Waiting
  BY DEF Waiting
<1> QED BY <1>1, AttemptStops DEF Fails

LEMMA AttemptAnswers ==
    ASSUME MediaInv, NEW t \in Attempts, pc[t] \notin Over \cup {"new"}, AnswersWith(t),
           UNCHANGED <<libraryVars, bucket, requestVars, attemptVars>>
    PROVE  MediaInv'
<1>1. CASE Replayed(t)
  BY <1>1, FitsNowhere, AttemptMoves DEF AnswersWith, requestVars
<1>2. CASE ~Replayed(t)
  BY <1>2, AttemptStops DEF AnswersWith
<1> QED BY <1>1, <1>2

\* An attempt goes on to a step of its command.
LEMMA AttemptWorks ==
    ASSUME MediaInv, NEW t \in Attempts, pc[t] \notin Over \cup {"new"},
           NEW next \in Working, Goes(t, next), FitsAt(t, next),
           UNCHANGED <<libraryVars, bucket, requestVars, attemptVars>>
    PROVE  MediaInv'
<1>1. next # "done" /\ next \in Steps \ {"new"}
  BY DEF Working, Steps
<1> QED BY <1>1, AttemptMoves DEF requestVars

LEMMA CallKeeps ==
    ASSUME MediaInv, NEW t \in Attempts, NEW k \in Keys, NEW b \in Commands, CallCommand(t, k, b)
    PROVE  MediaInv'
<1>0. MediaTypes /\ AttemptsOK /\ RequestInv /\ AttemptsFit
  BY MediaInvParts
<1>1. /\ AttemptsOK'
      /\ pc'[t] = "replaying" /\ key'[t] = k /\ body'[t] = b
      /\ \A u \in Attempts \ {t} : pc'[u] = pc[u] /\ key'[u] = key[u] /\ body'[u] = body[u]
  BY <1>0 DEF CallCommand, Goes, AttemptsOK, Steps, Waiting
<1>2. UNCHANGED <<asset, reservation, revisions, bucket, mediaClaim, receipt>> /\ pc[t] = "new"
  BY DEF CallCommand, libraryVars, requestVars
<1>3. AttemptsFit'
  <2>1. AttemptFits(t)'
    BY <1>1 DEF AttemptFits, FitsAt, Uploading, Placing, Deleting, Removing, Stored
  <2>2. ASSUME NEW u \in Attempts \ {t} PROVE AttemptFits(u)'
    <3>1. AttemptFits(u)
      BY <1>0 DEF AttemptsFit
    <3> QED BY <1>1, <1>2, <3>1 DEF AttemptFits, FitsAt, Photo, Exists
  <2> QED BY <2>1, <2>2 DEF AttemptsFit
<1>4. LibraryInv'
  BY <1>2, MediaInvParts DEF LibraryInv, LibraryIsWhole, DeletedWasThere, getAsset, Reserved, Exists
<1>5. RequestInv'
  <2>1. ReceiptEndsClaim'
    <3>1. ASSUME NEW j \in Keys, receipt[j] # NoBody PROVE mediaClaim[j] # NoMediaClaim
      BY <1>0, <3>1 DEF RequestInv, ReceiptEndsClaim
    <3>2. ASSUME NEW j \in Keys, receipt[j] # NoBody, NEW u \in Attempts, key'[u] = j,
                 mediaClaim[j].token = u
          PROVE  pc'[u] \in Over
      <4>1. u # t
        BY <1>0, <1>2, <3>2 DEF RequestInv, ClaimWasCalled
      <4> QED BY <1>0, <1>1, <3>2, <4>1 DEF RequestInv, ReceiptEndsClaim
    <3> QED BY <1>2, <3>1, <3>2 DEF ReceiptEndsClaim
  <2>2. ReceiptIsTrue'
    BY <1>0, <1>2 DEF RequestInv, ReceiptIsTrue, Carried
  <2>3. RevisionHasReceipt' /\ ClaimWasCalled'
    BY <1>0, <1>1, <1>2 DEF RequestInv, RevisionHasReceipt, ClaimWasCalled
  <2>4. DoneHasReceipt'
    BY <1>0, <1>1, <1>2 DEF RequestInv, DoneHasReceipt
  <2> QED BY <2>1, <2>2, <2>3, <2>4 DEF RequestInv
<1>6. MediaTypes'
  BY <1>0, <1>1, MediaTypesKept DEF MediaTypes, CallCommand
<1> QED BY <1>3, <1>4, <1>5, <1>6, MediaInvWillBe

LEMMA FirstStepFits ==
    ASSUME NEW t \in Attempts, body[t].kind \in {"upload", "replace", "crop", "delete"}
    PROVE  FirstStep(t) \in Working /\ FitsAt(t, FirstStep(t))
<1>1. \/ body[t].kind = "upload" /\ FirstStep(t) = "loading"
      \/ body[t].kind = "replace" /\ FirstStep(t) = "saving"
      \/ body[t].kind = "crop" /\ FirstStep(t) = "cropping"
      \/ body[t].kind = "delete" /\ FirstStep(t) = "beginning"
  BY DEF FirstStep
<1>2. FirstStep(t) \in Working
  BY <1>1 DEF Working
<1>3. FitsAt(t, FirstStep(t))
  BY <1>1 DEF FitsAt, Uploading, Placing, Deleting, Removing, Stored
<1> QED BY <1>2, <1>3

LEMMA ClaimStepKeeps ==
    ASSUME MediaInv, NEW t \in Attempts, ClaimStep(t)
    PROVE  MediaInv'
<1> USE DEF Over
<1>0. RequestsOK /\ AttemptsOK
  BY MediaInvParts
<1>1. CASE replayMutation(t)
  BY <1>1, AttemptStops, AttemptAnswers DEF replayMutation, Waiting
<1>2. CASE admit(t)
  BY <1>2, AttemptStops DEF admit, Waiting
<1>3. CASE claimMutation(t)
  BY <1>3, AttemptStops, AttemptAnswers DEF claimMutation, Waiting
<1>4. CASE racedReceipt(t)
  BY <1>4, AttemptStops, AttemptAnswers DEF racedReceipt, Waiting
<1>5. ASSUME pc[t] \in {"inserting", "overtaking"}
      PROVE  key[t] \in Keys /\ OwnClaim(t) \in Claims /\ OwnClaim(t).token = t
  BY <1>0, <1>5, CalledFields DEF OwnClaim, Claims
<1>6. CASE insertClaim(t)
  <2>1. CASE mediaClaim[key[t]] = NoMediaClaim
    <3>1. ~ReceiptExists(t)
      BY <1>5, <1>6, <2>1, MediaInvParts DEF insertClaim, RequestInv, ReceiptEndsClaim, ReceiptExists
    <3>2. "raced" \in Waiting /\ "raced" # "done"
      BY DEF Waiting
    <3>3. pc[t] \notin Over \cup {"new"} /\ Goes(t, "raced")
      BY <1>6, <2>1 DEF insertClaim
    <3>4. UNCHANGED <<libraryVars, bucket, receipt, attemptVars>>
      BY <1>6 DEF insertClaim
    <3> QED BY <1>5, <1>6, <2>1, <3>1, <3>2, <3>3, <3>4, FitsNowhere, AttemptMoves DEF insertClaim
  <2>2. CASE mediaClaim[key[t]] # NoMediaClaim
    BY <1>6, <2>2, AttemptStops DEF insertClaim, Waiting, requestVars
  <2> QED BY <2>1, <2>2
<1>7. CASE takeOver(t)
  <2>1. CASE UNCHANGED mediaClaim /\ \E next \in {"claiming", "failed"} : Goes(t, next)
    BY <1>7, <2>1, AttemptStops DEF takeOver, Waiting, requestVars
  <2>2. CASE /\ MayTakeOver(t) /\ Goes(t, "raced")
             /\ mediaClaim' = [mediaClaim EXCEPT ![key[t]] = OwnClaim(t)]
    <3>1. "raced" \in Waiting /\ "raced" # "done" /\ pc[t] = "overtaking"
      BY <1>7 DEF Waiting, takeOver
    <3>2. UNCHANGED <<libraryVars, bucket, receipt, attemptVars>>
      BY <1>7 DEF takeOver
    <3> QED BY <1>5, <2>2, <3>1, <3>2, FitsNowhere, AttemptMoves DEF MayTakeOver
  <2> QED BY <1>7, <2>1, <2>2 DEF takeOver
<1>8. CASE renewClaim(t)
  <2>1. CASE MayRenew(t)
    <3> DEFINE claim == [mediaClaim[key[t]] EXCEPT !.fresh = TRUE]
               next == CASE pc[t] = "leasing"  -> FirstStep(t)
                         [] pc[t] = "renewing" -> "creating"
                         [] pc[t] = "ending"   -> "completing"
    <3>1. pc[t] \in {"leasing", "renewing", "ending"} /\ Goes(t, next)
      BY <1>8, <2>1 DEF renewClaim
    <3>2. key[t] \in Keys /\ body[t].kind \in {"upload", "replace", "crop", "delete"}
          /\ body[t] # NoBody
      BY <1>0, <3>1, CalledFields
    <3>3. claim \in Claims /\ claim.token = mediaClaim[key[t]].token
      <4>1. mediaClaim[key[t]] \in [body : Commands, token : Attempts, fresh : BOOLEAN]
        BY <1>0, <2>1, <3>2 DEF RequestsOK, Claims, MayRenew, HoldsClaim, NoMediaClaim
      <4> QED BY <4>1 DEF Claims
    <3>4. mediaClaim' = [mediaClaim EXCEPT ![key[t]] = claim]
      BY <1>0, <1>8, <2>1, <3>2 DEF renewClaim, RequestsOK
    <3>5. AttemptFits(t)
      BY MediaInvParts DEF AttemptsFit
    <3>6. next \in Working /\ FitsAt(t, next)
      <4>1. CASE pc[t] = "leasing"
        <5>1. next = FirstStep(t)
          BY <4>1
        <5> QED BY <3>2, <5>1, FirstStepFits
      <4>2. CASE pc[t] = "renewing"
        <5>1. next = "creating"
          BY <4>2
        <5> QED BY <3>5, <4>2, <5>1 DEF AttemptFits, FitsAt, Working, Uploading, Placing, Deleting,
               Removing, Stored
      <4>3. CASE pc[t] = "ending"
        <5>1. next = "completing"
          BY <4>3
        <5> QED BY <3>5, <4>3, <5>1 DEF AttemptFits, FitsAt, Working, Uploading, Placing, Deleting,
               Removing, Stored
      <4> QED BY <3>1, <4>1, <4>2, <4>3
    <3>7. next # "done" /\ next \in Steps \ {"new"}
      BY <3>6 DEF Working, Steps
    <3>8. UNCHANGED <<libraryVars, bucket, receipt, attemptVars>> /\ ~ReceiptExists(t)
      BY <1>8, <2>1 DEF renewClaim, MayRenew
    <3> HIDE DEF next, claim
    <3> QED BY <3>1, <3>3, <3>4, <3>6, <3>7, <3>8, AttemptMoves
  <2>2. CASE ~MayRenew(t)
    BY <1>8, <2>2, AttemptFails DEF renewClaim, requestVars
  <2> QED BY <2>1, <2>2
<1>9. CASE releaseClaim(t)
  <2>1. "failed" # "done" /\ pc[t] = "releasing" /\ Goes(t, "failed")
        /\ UNCHANGED <<libraryVars, bucket, receipt, attemptVars>>
    BY <1>9 DEF releaseClaim
  <2>2. CASE MayRenew(t)
    <3>1. /\ ~ReceiptExists(t)
          /\ mediaClaim' = [mediaClaim EXCEPT ![key[t]] = NoMediaClaim]
          /\ NoMediaClaim \in Claims /\ NoMediaClaim.token = Nothing
      BY <1>9, <2>2 DEF releaseClaim, MayRenew, Claims, NoMediaClaim
    <3> QED BY <2>1, <3>1, FitsNowhere, AttemptMoves
  <2>3. CASE ~MayRenew(t)
    BY <1>9, <2>1, <2>3, AttemptStops DEF releaseClaim, requestVars
  <2> QED BY <2>2, <2>3
<1> QED BY <1>1, <1>2, <1>3, <1>4, <1>6, <1>7, <1>8, <1>9 DEF ClaimStep

-----------------------------------------------------------------------------
(* Uploads *)

\* An attempt at work: its command and its photo.
LEMMA AtWork ==
    ASSUME MediaInv, NEW t \in Attempts, pc[t] \in Working
    PROVE  /\ pc[t] \notin Over \cup {"new"}
           /\ key[t] \in Keys /\ body[t] \in Commands /\ Photo(t) \in Assets
           /\ AttemptFits(t)
           /\ pc[t] \in Uploading => body[t].kind = "upload" /\ body[t].source \in Sources
           /\ pc[t] \in Placing => /\ body[t].kind \in {"replace", "crop"}
                                   /\ body[t].base \in 0 .. (MaxRevisions - 1)
           /\ pc[t] \in Deleting => /\ body[t].kind = "delete"
                                    /\ Request(t) \in Deletions /\ Request(t) # NoRequest
<1>1. pc[t] \notin Over \cup {"new"}
  BY DEF Over, Working
<1>2. AttemptsOK /\ AttemptFits(t)
  BY MediaInvParts DEF AttemptsFit
<1> QED BY <1>1, <1>2, CalledFields DEF AttemptFits, FitsAt

\* Nothing in the library or the bucket changes.
LEMMA LibraryStays ==
    ASSUME MediaInv, UNCHANGED <<libraryVars, bucket>>
    PROVE  LibraryGrows /\ BucketKeeps /\ LibraryInv' /\ LibraryOK' /\ BucketOK'
<1>1. UNCHANGED <<asset, reservation, revisions, bucket>>
  BY DEF libraryVars
<1>2. LibraryGrows /\ BucketKeeps /\ LibraryInv'
  BY <1>1, MediaInvParts DEF LibraryGrows, BucketKeeps, Exists, LibraryInv, LibraryIsWhole,
     DeletedWasThere, getAsset, Reserved
<1> QED BY <1>2, MediaInvParts, MediaTypesKept

LEMMA LoadKeeps ==
    ASSUME MediaInv, NEW t \in Attempts, loadExisting(t)
    PROVE  MediaInv'
<1>1. pc[t] \in Working /\ pc[t] \in Uploading /\ {"putting", "recording"} \subseteq Working
  BY DEF loadExisting, Working, Uploading
<1>2. body[t].kind = "upload" /\ pc[t] \notin Over \cup {"new"}
  BY <1>1, AtWork
<1>3. FitsAt(t, "putting")
  BY <1>2 DEF FitsAt, Uploading, Placing, Deleting, Removing, Stored
<1>4. asset[Photo(t)].source = body[t].source => FitsAt(t, "recording")
  BY <1>2 DEF FitsAt, Uploading, Placing, Deleting, Removing, Stored
<1>5. UNCHANGED <<libraryVars, bucket, requestVars, attemptVars>>
  BY DEF loadExisting
<1> QED BY <1>1, <1>2, <1>3, <1>4, <1>5, AttemptWorks, AttemptFails DEF loadExisting

LEMMA RecordKeeps ==
    ASSUME MediaInv, NEW t \in Attempts, record(t)
    PROVE  MediaInv'
<1>1. pc[t] \in Working /\ pc[t] \in Uploading /\ pc[t] = "recording"
  BY DEF record, Working, Uploading
<1>2. pc[t] \notin Over \cup {"new"} /\ body[t].kind = "upload"
  BY <1>1, AtWork
<1>3. UNCHANGED <<libraryVars, bucket, mediaClaim, attemptVars>> /\ Receipted(t)
  BY DEF record
<1>4. LibraryGrows /\ BucketKeeps /\ LibraryInv' /\ LibraryOK' /\ BucketOK'
  BY <1>3, LibraryStays
<1>5. CASE HoldsClaim(t)
  <2>1. asset[Photo(t)].source = body[t].source
    BY <1>1, AtWork DEF AttemptFits, FitsAt
  <2>2. Carried(key[t], body[t])'
    BY <1>2, <1>3, <2>1 DEF Carried, Photo, libraryVars, attemptVars
  <2>3. Goes(t, "done") /\ revisions' = revisions
    BY <1>3, <1>5 DEF record, libraryVars
  <2> QED BY <1>2, <1>3, <1>4, <1>5, <2>2, <2>3, ReceiptMoves
<1>6. CASE ~HoldsClaim(t)
  <2>1. UNCHANGED requestVars
    BY <1>3, <1>6 DEF Receipted, requestVars
  <2>2. CASE Replayed(t)
    BY <1>2, <1>3, <1>6, <2>1, <2>2, FitsNowhere, AttemptMoves
       DEF record, requestVars
  <2>3. CASE ~Replayed(t)
    BY <1>2, <1>3, <1>6, <2>1, <2>3, AttemptFails DEF record
  <2> QED BY <2>2, <2>3
<1> QED BY <1>5, <1>6

\* An object is written once, and the photos of the catalogue are there already.
LEMMA ObjectIsPut ==
    ASSUME MediaInv, NEW t \in Attempts, pc[t] \in {"putting", "thumbing"},
           NEW part \in {"source", "thumbnail"}, PutOnce(t, <<Photo(t), part>>),
           UNCHANGED libraryVars
    PROVE  /\ LibraryGrows /\ BucketKeeps /\ LibraryInv' /\ LibraryOK' /\ BucketOK'
           /\ \A o \in Objects : bucket[o] # Nothing => bucket'[o] = bucket[o]
           /\ SameObject(t, <<Photo(t), part>>) => bucket'[<<Photo(t), part>>] = body[t].source
<1>0. LibraryOK /\ BucketOK /\ LibraryInv /\ DeletedWasThere
  BY MediaInvParts
<1>1. UNCHANGED <<asset, reservation, revisions>>
  BY DEF libraryVars
<1>2. Photo(t) \in Assets /\ body[t].source \in Sources /\ <<Photo(t), part>> \in Objects
  BY AtWork DEF Working, Uploading, Objects
<1>3. /\ \A o \in Objects : bucket[o] # Nothing => bucket'[o] = bucket[o]
      /\ bucket'[<<Photo(t), part>>] = IF bucket[<<Photo(t), part>>] = Nothing
                                       THEN body[t].source ELSE bucket[<<Photo(t), part>>]
      /\ BucketOK'
  BY <1>0, <1>2 DEF PutOnce, BucketOK
<1>4. LibraryGrows
  BY <1>1 DEF LibraryGrows, Exists
<1>5. BucketKeeps
  BY <1>3 DEF BucketKeeps, Objects
<1>6. LibraryInv'
  <2>1. ASSUME NEW a \in Assets, getAsset(a)'
        PROVE  bucket'[<<a, "source">>] = asset'[a].source
    <3>1. getAsset(a) /\ Exists(a)
      BY <1>1, <2>1 DEF getAsset, Exists, Reserved
    <3>2. bucket[<<a, "source">>] = asset[a].source /\ asset[a].source \in Sources
      BY <1>0, <3>1, ExistsIsPhoto DEF LibraryInv, LibraryIsWhole
    <3> QED BY <1>1, <1>3, <3>2, MediaAssumption DEF Objects
  <2>2. ASSUME NEW i \in DOMAIN revisions PROVE getAsset(revisions[i].asset)'
    BY <1>0, <1>1, <2>2 DEF LibraryInv, LibraryIsWhole, getAsset, Exists, Reserved
  <2>3. DeletedWasThere'
    BY <1>0, <1>1 DEF DeletedWasThere
  <2> QED BY <1>1, <2>1, <2>2, <2>3 DEF LibraryInv, LibraryIsWhole
<1>7. LibraryOK'
  BY <1>1, MediaInvParts, MediaTypesKept DEF libraryVars
<1> QED BY <1>3, <1>4, <1>5, <1>6, <1>7 DEF SameObject

LEMMA PutKeeps ==
    ASSUME MediaInv, NEW t \in Attempts, put(t) \/ putVariant(t)
    PROVE  MediaInv'
<1>1. /\ pc[t] \in {"putting", "thumbing"} /\ pc[t] \in Working /\ pc[t] \in Uploading
      /\ UNCHANGED <<libraryVars, requestVars, attemptVars>>
  BY DEF put, putVariant, Working, Uploading
<1>2. pc[t] \notin Over \cup {"new"} /\ body[t].kind = "upload" /\ Photo(t) \in Assets
      /\ body[t].source \in Sources /\ AttemptFits(t)
  BY <1>1, AtWork
<1>3. CASE UNCHANGED bucket /\ Fails(t)
  BY <1>1, <1>2, <1>3, AttemptFails
<1>4. ASSUME NEW part \in {"source", "thumbnail"}, PutOnce(t, <<Photo(t), part>>),
             SameObject(t, <<Photo(t), part>>), part = "thumbnail" => pc[t] = "thumbing",
             NEW next \in {"thumbing", "renewing", "releasing"}, Goes(t, next)
      PROVE  MediaInv'
  <2>1. /\ LibraryGrows /\ BucketKeeps /\ LibraryInv' /\ LibraryOK' /\ BucketOK'
        /\ \A o \in Objects : bucket[o] # Nothing => bucket'[o] = bucket[o]
        /\ bucket'[<<Photo(t), part>>] = body[t].source
    BY <1>1, <1>4, ObjectIsPut
  <2>2. ~Exists(Photo(t)) => bucket'[<<Photo(t), "source">>] = body[t].source
    <3>1. CASE part = "source"
      BY <2>1, <3>1
    <3>2. CASE part = "thumbnail"
      <4>1. ~Exists(Photo(t)) => bucket[<<Photo(t), "source">>] = body[t].source
        BY <1>2, <1>4, <3>2 DEF AttemptFits, FitsAt, Stored
      <4> QED BY <1>2, <2>1, <4>1, MediaAssumption DEF Objects
    <3> QED BY <1>4, <3>1, <3>2
  <2>3. next \in Steps \ {"new", "done"}
    BY DEF Steps, Working, Waiting
  <2>4. FitsAt(t, next)'
    <3>1. UNCHANGED <<asset, body>>
      BY <1>1 DEF libraryVars, attemptVars
    <3> QED BY <1>2, <2>2, <3>1
            DEF FitsAt, Uploading, Placing, Deleting, Removing, Stored, Exists, Photo
  <2>5. UNCHANGED <<revisions, requestVars, attemptVars>>
    BY <1>1 DEF libraryVars
  <2> QED BY <1>2, <1>4, <2>1, <2>3, <2>4, <2>5, LibraryMoves
<1>5. ASSUME put(t) PROVE MediaInv'
  BY <1>3, <1>4, <1>5 DEF put
<1>6. ASSUME putVariant(t) PROVE MediaInv'
  BY <1>3, <1>4, <1>6 DEF putVariant
<1> QED BY <1>5, <1>6

LEMMA CreateKeeps ==
    ASSUME MediaInv, NEW t \in Attempts, createAsset(t)
    PROVE  MediaInv'
<1>0. LibraryOK /\ BucketOK /\ LibraryInv /\ DeletedWasThere
  BY MediaInvParts
<1>1. /\ pc[t] \in Working /\ pc[t] \in Uploading /\ pc[t] = "creating"
      /\ UNCHANGED <<reservation, revisions, mediaClaim, bucket, attemptVars>>
  BY DEF createAsset, Working, Uploading
<1>2. pc[t] \notin Over \cup {"new"} /\ body[t].kind = "upload" /\ Photo(t) \in Assets
      /\ body[t].source \in Sources /\ AttemptFits(t)
  BY <1>1, AtWork
<1>3. CASE MayInsert(t)
  <2> DEFINE row == [source |-> body[t].source, deleted |-> FALSE]
  <2>1. /\ asset' = [asset EXCEPT ![Photo(t)] = row]
        /\ Receipted(t) /\ Goes(t, "done") /\ HoldsClaim(t)
        /\ ~Exists(Photo(t))
    BY <1>3, MediaAssumption DEF createAsset, MayInsert
  <2>2. /\ asset'[Photo(t)] = row
        /\ \A a \in Assets \ {Photo(t)} : asset'[a] = asset[a]
        /\ LibraryOK'
    BY <1>0, <1>1, <1>2, <2>1 DEF LibraryOK, AssetRows
  <2>3. bucket[<<Photo(t), "source">>] = body[t].source
    BY <1>1, <1>2, <2>1 DEF AttemptFits, FitsAt, Stored
  <2>4. LibraryGrows
    <3>1. ~asset[Photo(t)].deleted
      BY <1>0, <1>2, <2>1, ExistsIsPhoto
    <3> QED BY <1>1, <2>1, <2>2, <3>1 DEF LibraryGrows, Exists
  <2>5. BucketKeeps
    BY <1>1 DEF BucketKeeps
  <2>6. LibraryInv'
    <3>1. ASSUME NEW a \in Assets, getAsset(a)'
          PROVE  bucket'[<<a, "source">>] = asset'[a].source
      <4>1. CASE a = Photo(t)
        BY <1>1, <2>2, <2>3, <4>1
      <4>2. CASE a # Photo(t)
        <5>1. getAsset(a)
          BY <1>1, <2>2, <3>1, <4>2 DEF getAsset, Exists, Reserved
        <5> QED BY <1>0, <1>1, <2>2, <4>2, <5>1 DEF LibraryInv, LibraryIsWhole
      <4> QED BY <4>1, <4>2
    <3>2. ASSUME NEW i \in DOMAIN revisions PROVE getAsset(revisions[i].asset)'
      <4>1. getAsset(revisions[i].asset) /\ revisions[i].asset \in Assets
        BY <1>0, <3>2, RevisionFields DEF LibraryInv, LibraryIsWhole
      <4>2. revisions[i].asset # Photo(t)
        BY <2>1, <4>1 DEF getAsset
      <4>3. asset'[revisions[i].asset] = asset[revisions[i].asset]
        BY <2>2, <4>1, <4>2
      <4> QED BY <1>1, <4>1, <4>3 DEF getAsset, Exists, Reserved
    <3>3. DeletedWasThere'
      BY <1>0, <2>2 DEF DeletedWasThere
    <3> QED BY <1>1, <3>1, <3>2, <3>3 DEF LibraryInv, LibraryIsWhole
  <2>7. BucketOK' /\ Carried(key[t], body[t])'
    BY <1>0, <1>1, <1>2, <2>2 DEF BucketOK, Carried, Photo, attemptVars
  <2> QED BY <1>1, <1>2, <2>1, <2>2, <2>4, <2>5, <2>6, <2>7, ReceiptMoves
<1>4. CASE ~MayInsert(t)
  <2>1. UNCHANGED <<libraryVars, bucket, requestVars, attemptVars>>
    BY <1>1, <1>4 DEF createAsset, libraryVars, requestVars
  <2>2. CASE asset[Photo(t)].source = body[t].source /\ Goes(t, "recording")
    <3>1. FitsAt(t, "recording") /\ "recording" \in Working
      BY <1>2, <2>2 DEF FitsAt, Uploading, Placing, Deleting, Removing, Stored, Working
    <3> QED BY <1>2, <2>1, <2>2, <3>1, AttemptWorks
  <2>3. CASE Fails(t)
    BY <1>2, <2>1, <2>3, AttemptFails
  <2> QED BY <1>4, <2>2, <2>3 DEF createAsset
<1> QED BY <1>3, <1>4

-----------------------------------------------------------------------------
(* Placements *)

LEMMA CropKeeps ==
    ASSUME MediaInv, NEW t \in Attempts, cropCurrent(t)
    PROVE  MediaInv'
<1>1. pc[t] \in Working /\ pc[t] \in Placing /\ "saving" \in Working
  BY DEF cropCurrent, Working, Placing
<1>2. body[t].kind \in {"replace", "crop"} /\ pc[t] \notin Over \cup {"new"}
  BY <1>1, AtWork
<1>3. FitsAt(t, "saving")
  BY <1>2 DEF FitsAt, Uploading, Placing, Deleting, Removing, Stored
<1>4. UNCHANGED <<libraryVars, bucket, requestVars, attemptVars>>
  BY DEF cropCurrent
<1> QED BY <1>1, <1>2, <1>3, <1>4, AttemptWorks, AttemptFails DEF cropCurrent

LEMMA SaveKeeps ==
    ASSUME MediaInv, NEW t \in Attempts, saveOccurrence(t)
    PROVE  MediaInv'
<1>0. LibraryOK /\ BucketOK /\ LibraryInv /\ DeletedWasThere
  BY MediaInvParts
<1>1. /\ pc[t] \in Working /\ pc[t] \in Placing
      /\ UNCHANGED <<asset, reservation, mediaClaim, bucket, attemptVars>>
  BY DEF saveOccurrence, Working, Placing
<1>2. /\ pc[t] \notin Over \cup {"new"} /\ body[t].kind \in {"replace", "crop"}
      /\ Photo(t) \in Assets /\ key[t] \in Keys /\ body[t].base \in 0 .. (MaxRevisions - 1)
  BY <1>1, AtWork
<1>3. CASE MaySave(t)
  <2> DEFINE revision == [asset |-> Photo(t), key |-> key[t]]
  <2>1. /\ revisions' = Append(revisions, revision)
        /\ Receipted(t) /\ Goes(t, "done") /\ HoldsClaim(t)
        /\ getAsset(Photo(t)) /\ Len(revisions) = body[t].base
    BY <1>3 DEF saveOccurrence, MaySave, getAsset
  <2>2. /\ DOMAIN revisions' = DOMAIN revisions \cup {Len(revisions) + 1}
        /\ \A i \in DOMAIN revisions : revisions'[i] = revisions[i]
        /\ revisions'[Len(revisions) + 1] = revision
        /\ Len(revisions') = Len(revisions) + 1
    BY <1>0, <2>1 DEF LibraryOK
  <2>3. LibraryOK'
    <3>1. revisions' \in Seq(Placements)
      BY <1>0, <1>2, <2>1 DEF LibraryOK, Placements
    <3>2. Len(revisions') <= MaxRevisions
      BY <1>2, <2>1, <2>2, MediaAssumption
    <3> QED BY <1>0, <1>1, <3>1, <3>2 DEF LibraryOK
  <2>4. LibraryGrows /\ BucketKeeps
    BY <1>1, <2>2 DEF LibraryGrows, BucketKeeps, Exists
  <2>5. LibraryInv'
    <3>1. ASSUME NEW i \in DOMAIN revisions' PROVE getAsset(revisions'[i].asset)
      BY <1>0, <2>1, <2>2, <3>1 DEF LibraryInv, LibraryIsWhole
    <3>2. ASSUME NEW i \in DOMAIN revisions' PROVE getAsset(revisions[i].asset)'
      BY <1>1, <3>1, <3>2 DEF getAsset, Exists, Reserved
    <3>3. ASSUME NEW a \in Assets, getAsset(a)' PROVE bucket'[<<a, "source">>] = asset'[a].source
      BY <1>0, <1>1, <3>3 DEF LibraryInv, LibraryIsWhole, getAsset, Exists, Reserved
    <3>4. DeletedWasThere'
      BY <1>0, <1>1 DEF DeletedWasThere
    <3> QED BY <3>2, <3>3, <3>4 DEF LibraryInv, LibraryIsWhole
  <2>6. Carried(key[t], body[t])'
    <3>1. body' = body /\ key' = key
      BY <1>1 DEF attemptVars
    <3>2. \E i \in DOMAIN revisions' :
              revisions'[i].key = key[t] /\ revisions'[i].asset = body[t].asset
      BY <2>2 DEF Photo
    <3> QED BY <1>2, <3>1, <3>2 DEF Carried
  <2>7. BucketOK'
    BY <1>0, <1>1 DEF BucketOK
  <2> QED BY <1>1, <1>2, <2>1, <2>3, <2>4, <2>5, <2>6, <2>7, ReceiptMoves
<1>4. CASE ~MaySave(t)
  <2>1. UNCHANGED <<libraryVars, bucket, requestVars, attemptVars>>
    BY <1>1, <1>4 DEF saveOccurrence, libraryVars, requestVars
  <2>2. CASE Replayed(t)
    BY <1>2, <1>4, <2>1, <2>2, FitsNowhere, AttemptMoves DEF saveOccurrence, requestVars
  <2>3. CASE ~Replayed(t)
    BY <1>2, <1>4, <2>1, <2>3, AttemptFails DEF saveOccurrence
  <2> QED BY <2>2, <2>3
<1> QED BY <1>3, <1>4

-----------------------------------------------------------------------------
(* Deletions *)

LEMMA BeginKeeps ==
    ASSUME MediaInv, NEW t \in Attempts, getStoredAsset(t)
    PROVE  MediaInv'
<1>1. pc[t] \in Working /\ pc[t] \in Deleting /\ "reserving" \in Working
  BY DEF getStoredAsset, Working, Deleting
<1>2. body[t].kind = "delete" /\ pc[t] \notin Over \cup {"new"}
  BY <1>1, AtWork
<1>3. Exists(Photo(t)) => FitsAt(t, "reserving")
  BY <1>2 DEF FitsAt, Uploading, Placing, Deleting, Removing, Stored
<1>4. UNCHANGED <<libraryVars, bucket, requestVars, attemptVars>>
  BY DEF getStoredAsset
<1> QED BY <1>1, <1>2, <1>3, <1>4, AttemptWorks, AttemptFails DEF getStoredAsset

\* The request of the attempt reserves a photo that no revision ever used.
LEMMA ReservationMoves ==
    ASSUME MediaInv, NEW t \in Attempts, pc[t] \in {"reserving", "adopting"},
           ~Referenced(Photo(t)) \/ Reserved(Photo(t)),
           reservation' = [reservation EXCEPT ![Photo(t)] = Request(t)], Goes(t, "tombstoning"),
           UNCHANGED <<asset, revisions, requestVars, bucket, attemptVars>>
    PROVE  MediaInv'
<1>0. LibraryOK /\ BucketOK /\ LibraryInv /\ DeletedWasThere
  BY MediaInvParts
<1>1. pc[t] \in Working /\ pc[t] \in Deleting
  BY DEF Working, Deleting
<1>2. /\ pc[t] \notin Over \cup {"new"} /\ body[t].kind = "delete" /\ Photo(t) \in Assets
      /\ Request(t) \in Deletions /\ Request(t) # NoRequest /\ AttemptFits(t)
  BY <1>1, AtWork
<1>3. /\ reservation'[Photo(t)] = Request(t)
      /\ \A a \in Assets \ {Photo(t)} : reservation'[a] = reservation[a]
      /\ LibraryOK'
  BY <1>0, <1>2 DEF LibraryOK
<1>4. LibraryGrows /\ BucketKeeps /\ BucketOK'
  BY <1>0 DEF LibraryGrows, BucketKeeps, Exists, BucketOK
<1>5. ASSUME NEW i \in DOMAIN revisions PROVE getAsset(revisions[i].asset)'
  <2>1. getAsset(revisions[i].asset) /\ revisions[i].asset \in Assets
    BY <1>0, <1>5, RevisionFields DEF LibraryInv, LibraryIsWhole
  <2>2. revisions[i].asset # Photo(t)
    BY <2>1 DEF getAsset, Referenced
  <2> QED BY <1>3, <2>1, <2>2 DEF getAsset, Exists, Reserved
<1>6. ASSUME NEW a \in Assets, getAsset(a)' PROVE bucket'[<<a, "source">>] = asset'[a].source
  <2>1. a # Photo(t)
    BY <1>2, <1>3, <1>6 DEF getAsset, Reserved
  <2>2. getAsset(a)
    BY <1>3, <1>6, <2>1 DEF getAsset, Exists, Reserved
  <2> QED BY <1>0, <2>2 DEF LibraryInv, LibraryIsWhole
<1>7. LibraryInv'
  BY <1>0, <1>5, <1>6 DEF LibraryInv, LibraryIsWhole, DeletedWasThere
<1>8. FitsAt(t, "tombstoning")'
  <2>1. Exists(Photo(t))
    BY <1>2 DEF AttemptFits, FitsAt, Deleting
  <2>2. UNCHANGED <<asset, body>>
    BY DEF attemptVars
  <2> QED BY <1>2, <2>1, <2>2
          DEF FitsAt, Uploading, Placing, Deleting, Removing, Stored, Exists, Photo
<1>9. "tombstoning" \in Steps \ {"new", "done"}
  BY DEF Steps, Working
<1> QED BY <1>2, <1>3, <1>4, <1>7, <1>8, <1>9, LibraryMoves

LEMMA ReserveKeeps ==
    ASSUME MediaInv, NEW t \in Attempts, reserve(t)
    PROVE  MediaInv'
<1>1. pc[t] = "reserving" /\ pc[t] \in Working /\ pc[t] \in Deleting /\ "adopting" \in Working
  BY DEF reserve, Working, Deleting
<1>2. CASE MayReserve(t)
  BY <1>1, <1>2, ReservationMoves DEF reserve, MayReserve
<1>3. CASE ~MayReserve(t)
  <2>1. pc[t] \notin Over \cup {"new"} /\ body[t].kind = "delete" /\ AttemptFits(t)
    BY <1>1, AtWork
  <2>2. FitsAt(t, "adopting")
    BY <1>1, <2>1 DEF AttemptFits, FitsAt, Uploading, Placing, Deleting, Removing, Stored
  <2>3. UNCHANGED <<libraryVars, bucket, requestVars, attemptVars>> /\ Goes(t, "adopting")
    BY <1>3 DEF reserve, libraryVars
  <2> QED BY <1>1, <2>1, <2>2, <2>3, AttemptWorks
<1> QED BY <1>2, <1>3

LEMMA AdoptKeeps ==
    ASSUME MediaInv, NEW t \in Attempts, adopt(t)
    PROVE  MediaInv'
<1> DEFINE reserved == reservation[Photo(t)]
           adopted == /\ Reserved(Photo(t)) /\ reserved # Request(t)
                      /\ Abandoned(reserved) /\ HoldsClaim(t)
<1>1. pc[t] = "adopting" /\ pc[t] \in Working /\ pc[t] \in Deleting /\ "tombstoning" \in Working
  BY DEF adopt, Working, Deleting
<1>2. pc[t] \notin Over \cup {"new"} /\ body[t].kind = "delete" /\ AttemptFits(t)
  BY <1>1, AtWork
<1>3. UNCHANGED <<asset, revisions, requestVars, bucket, attemptVars>>
  BY DEF adopt
<1>4. CASE adopted
  <2>1. /\ reservation' = [reservation EXCEPT ![Photo(t)] = Request(t)]
        /\ Goes(t, "tombstoning") /\ Reserved(Photo(t))
    BY <1>4 DEF adopt
  <2> QED BY <1>1, <1>3, <2>1, ReservationMoves
<1>5. CASE ~adopted
  <2>1. UNCHANGED libraryVars /\ (Goes(t, "tombstoning") \/ Fails(t))
    BY <1>3, <1>5 DEF adopt, libraryVars
  <2>2. FitsAt(t, "tombstoning")
    BY <1>1, <1>2 DEF AttemptFits, FitsAt, Uploading, Placing, Deleting, Removing, Stored
  <2> QED BY <1>1, <1>2, <1>3, <2>1, <2>2, AttemptWorks, AttemptFails
<1> QED BY <1>4, <1>5

LEMMA TombstoneKeeps ==
    ASSUME MediaInv, NEW t \in Attempts, tombstoneAssetDeletion(t)
    PROVE  MediaInv'
<1>0. LibraryOK /\ BucketOK /\ LibraryInv /\ DeletedWasThere
  BY MediaInvParts
<1>1. /\ pc[t] = "tombstoning" /\ pc[t] \in Working /\ pc[t] \in Deleting
      /\ UNCHANGED <<reservation, revisions, requestVars, bucket, attemptVars>>
  BY DEF tombstoneAssetDeletion, Working, Deleting
<1>2. /\ pc[t] \notin Over \cup {"new"} /\ body[t].kind = "delete" /\ Photo(t) \in Assets
      /\ Request(t) # NoRequest /\ AttemptFits(t)
  BY <1>1, AtWork
<1>3. CASE MayTombstone(t)
  <2>1. /\ asset' = [asset EXCEPT ![Photo(t)].deleted = TRUE] /\ Goes(t, "deleting")
        /\ Reserved(Photo(t))
    BY <1>2, <1>3 DEF tombstoneAssetDeletion, MayTombstone, Reserved
  <2>2. /\ asset'[Photo(t)].deleted /\ asset'[Photo(t)].source = asset[Photo(t)].source
        /\ \A a \in Assets \ {Photo(t)} : asset'[a] = asset[a]
        /\ LibraryOK'
    BY <1>0, <1>1, <1>2, <2>1 DEF LibraryOK, AssetRows
  <2>3. asset[Photo(t)].source # Nothing
    <3>1. Exists(Photo(t))
      BY <1>1, <1>2 DEF AttemptFits, FitsAt, Deleting
    <3> QED BY <1>0, <1>2, <3>1, ExistsIsPhoto, MediaAssumption
  <2>4. body' = body /\ Exists(Photo(t))'
    BY <1>1, <2>2, <2>3 DEF Exists, NoAsset, Photo, attemptVars
  <2>5. LibraryGrows
    <3>1. ASSUME NEW a \in Assets, Exists(a) PROVE Exists(a)' /\ asset'[a].source = asset[a].source
      BY <1>2, <2>2, <2>3, <3>1 DEF Exists, NoAsset
    <3> QED BY <1>1, <2>2, <3>1 DEF LibraryGrows
  <2>6. BucketKeeps /\ BucketOK'
    BY <1>0, <1>1 DEF BucketKeeps, BucketOK
  <2>7. LibraryInv'
    <3>1. ASSUME NEW i \in DOMAIN revisions PROVE getAsset(revisions[i].asset)'
      <4>1. getAsset(revisions[i].asset) /\ revisions[i].asset \in Assets
        BY <1>0, <3>1, RevisionFields DEF LibraryInv, LibraryIsWhole
      <4>2. revisions[i].asset # Photo(t)
        BY <2>1, <4>1 DEF getAsset
      <4>3. asset'[revisions[i].asset] = asset[revisions[i].asset]
        BY <2>2, <4>1, <4>2
      <4> QED BY <1>1, <4>1, <4>3 DEF getAsset, Exists, Reserved
    <3>2. ASSUME NEW a \in Assets, getAsset(a)' PROVE bucket'[<<a, "source">>] = asset'[a].source
      <4>1. a # Photo(t)
        BY <2>2, <3>2 DEF getAsset
      <4>2. getAsset(a)
        BY <1>1, <2>2, <3>2, <4>1 DEF getAsset, Exists, Reserved
      <4> QED BY <1>0, <1>1, <2>2, <4>1, <4>2 DEF LibraryInv, LibraryIsWhole
    <3>3. DeletedWasThere'
      BY <1>0, <2>2, <2>3 DEF DeletedWasThere
    <3> QED BY <1>1, <3>1, <3>2, <3>3 DEF LibraryInv, LibraryIsWhole
  <2>8. FitsAt(t, "deleting")'
    <3> QED BY <1>2, <2>2, <2>4
            DEF FitsAt, Uploading, Placing, Deleting, Removing, Stored, Photo
  <2>9. "deleting" \in Steps \ {"new", "done"}
    BY DEF Steps, Working
  <2> QED BY <1>1, <1>2, <2>1, <2>2, <2>5, <2>6, <2>7, <2>8, <2>9, LibraryMoves
<1>4. CASE ~MayTombstone(t)
  BY <1>1, <1>2, <1>4, AttemptFails DEF tombstoneAssetDeletion, libraryVars
<1> QED BY <1>3, <1>4

LEMMA DeleteObjectKeeps ==
    ASSUME MediaInv, NEW t \in Attempts, deleteObject(t)
    PROVE  MediaInv'
<1>0. LibraryOK /\ BucketOK /\ LibraryInv /\ DeletedWasThere
  BY MediaInvParts
<1>1. /\ pc[t] \in {"deleting", "clearing"} /\ pc[t] \in Working /\ pc[t] \in Deleting
      /\ UNCHANGED <<libraryVars, requestVars, attemptVars>>
  BY DEF deleteObject, Working, Deleting, Removing
<1>2. /\ pc[t] \notin Over \cup {"new"} /\ body[t].kind = "delete" /\ Photo(t) \in Assets
      /\ AttemptFits(t)
  BY <1>1, AtWork
<1>3. asset[Photo(t)].deleted /\ Exists(Photo(t))
  BY <1>1, <1>2 DEF AttemptFits, FitsAt, Removing, Deleting
<1>4. CASE UNCHANGED bucket /\ Fails(t)
  BY <1>1, <1>2, <1>4, AttemptFails
<1>5. ASSUME NEW part \in {"source", "thumbnail"}, NEW next \in {"clearing", "ending", "releasing"},
             bucket' = [bucket EXCEPT ![<<Photo(t), part>>] = Nothing], Goes(t, next)
      PROVE  MediaInv'
  <2>1. BucketOK'
    BY <1>0, <1>5 DEF BucketOK
  <2>2. \A a \in Assets : a # Photo(t) => bucket'[<<a, "source">>] = bucket[<<a, "source">>]
    BY <1>0, <1>5 DEF BucketOK, Objects
  <2>3. UNCHANGED <<asset, reservation, revisions, body>>
    BY <1>1 DEF libraryVars, attemptVars
  <2>4. LibraryGrows /\ BucketKeeps
    BY <1>3, <2>2, <2>3 DEF LibraryGrows, BucketKeeps, Exists
  <2>5. LibraryInv'
    <3>1. ASSUME NEW i \in DOMAIN revisions PROVE getAsset(revisions[i].asset)'
      BY <1>0, <2>3, <3>1 DEF LibraryInv, LibraryIsWhole, getAsset, Exists, Reserved
    <3>2. ASSUME NEW a \in Assets, getAsset(a)' PROVE bucket'[<<a, "source">>] = asset'[a].source
      <4>1. getAsset(a)
        BY <2>3, <3>2 DEF getAsset, Exists, Reserved
      <4>2. a # Photo(t)
        BY <1>3, <4>1 DEF getAsset
      <4> QED BY <1>0, <2>2, <2>3, <4>1, <4>2 DEF LibraryInv, LibraryIsWhole
    <3>3. DeletedWasThere'
      BY <1>0, <2>3 DEF DeletedWasThere
    <3> QED BY <2>3, <3>1, <3>2, <3>3 DEF LibraryInv, LibraryIsWhole
  <2>6. LibraryOK'
    BY <1>1, MediaInvParts, MediaTypesKept
  <2>7. FitsAt(t, next)' /\ next \in Steps \ {"new", "done"}
    BY <1>2, <1>3, <2>3 DEF FitsAt, Uploading, Placing, Deleting, Removing, Stored, Exists, Photo,
       Steps, Working, Waiting
  <2>8. UNCHANGED <<revisions, requestVars, attemptVars>>
    BY <1>1 DEF libraryVars
  <2> QED BY <1>2, <1>5, <2>1, <2>4, <2>5, <2>6, <2>7, <2>8, LibraryMoves
<1>6. \/ UNCHANGED bucket /\ Fails(t)
      \/ \E part \in {"source", "thumbnail"}, next \in {"clearing", "ending", "releasing"} :
            bucket' = [bucket EXCEPT ![<<Photo(t), part>>] = Nothing] /\ Goes(t, next)
  BY DEF deleteObject, Fails
<1> QED BY <1>4, <1>5, <1>6

LEMMA CompleteKeeps ==
    ASSUME MediaInv, NEW t \in Attempts, completeAssetDeletion(t)
    PROVE  MediaInv'
<1>0. LibraryOK /\ BucketOK /\ LibraryInv /\ DeletedWasThere
  BY MediaInvParts
<1>1. /\ pc[t] = "completing" /\ pc[t] \in Working /\ pc[t] \in Deleting
      /\ UNCHANGED <<asset, revisions, mediaClaim, bucket, attemptVars>>
  BY DEF completeAssetDeletion, Working, Deleting, Removing
<1>2. /\ pc[t] \notin Over \cup {"new"} /\ body[t].kind = "delete" /\ Photo(t) \in Assets
      /\ AttemptFits(t)
  BY <1>1, AtWork
<1>3. asset[Photo(t)].deleted
  BY <1>1, <1>2 DEF AttemptFits, FitsAt, Removing
<1>4. CASE MayComplete(t)
  <2>1. /\ reservation' = [reservation EXCEPT ![Photo(t)] = NoRequest]
        /\ Receipted(t) /\ Goes(t, "done") /\ HoldsClaim(t)
    BY <1>4 DEF completeAssetDeletion, MayComplete, MayTombstone
  <2>2. /\ \A a \in Assets \ {Photo(t)} : reservation'[a] = reservation[a]
        /\ LibraryOK'
    BY <1>0, <1>1, <1>2, <2>1 DEF LibraryOK, Deletions
  <2>3. LibraryGrows /\ BucketKeeps /\ BucketOK'
    BY <1>0, <1>1 DEF LibraryGrows, BucketKeeps, Exists, BucketOK
  <2>4. LibraryInv'
    <3>1. ASSUME NEW i \in DOMAIN revisions PROVE getAsset(revisions[i].asset)'
      <4>1. getAsset(revisions[i].asset) /\ revisions[i].asset \in Assets
        BY <1>0, <3>1, RevisionFields DEF LibraryInv, LibraryIsWhole
      <4>2. revisions[i].asset # Photo(t)
        BY <1>3, <4>1 DEF getAsset
      <4> QED BY <1>1, <2>2, <4>1, <4>2 DEF getAsset, Exists, Reserved
    <3>2. ASSUME NEW a \in Assets, getAsset(a)' PROVE bucket'[<<a, "source">>] = asset'[a].source
      <4>1. a # Photo(t)
        BY <1>1, <1>3, <3>2 DEF getAsset
      <4>2. getAsset(a)
        BY <1>1, <2>2, <3>2, <4>1 DEF getAsset, Exists, Reserved
      <4> QED BY <1>0, <1>1, <4>2 DEF LibraryInv, LibraryIsWhole
    <3>3. DeletedWasThere'
      BY <1>0, <1>1 DEF DeletedWasThere
    <3> QED BY <1>1, <3>1, <3>2, <3>3 DEF LibraryInv, LibraryIsWhole
  <2>5. Carried(key[t], body[t])'
    <3>1. UNCHANGED <<asset, body>>
      BY <1>1 DEF attemptVars
    <3> QED BY <1>2, <1>3, <3>1 DEF Carried, Photo
  <2> QED BY <1>1, <1>2, <2>1, <2>2, <2>3, <2>4, <2>5, ReceiptMoves
<1>5. CASE ~MayComplete(t)
  <2>1. UNCHANGED <<libraryVars, bucket, requestVars, attemptVars>>
    BY <1>1, <1>5 DEF completeAssetDeletion, libraryVars, requestVars
  <2>2. CASE Replayed(t)
    BY <1>2, <1>5, <2>1, <2>2, FitsNowhere, AttemptMoves DEF completeAssetDeletion, requestVars
  <2>3. CASE ~Replayed(t)
    BY <1>2, <1>5, <2>1, <2>3, AttemptFails DEF completeAssetDeletion
  <2> QED BY <2>2, <2>3
<1> QED BY <1>4, <1>5

-----------------------------------------------------------------------------
(* The invariant *)

LEMMA MediaInitInv ==
    ASSUME MediaInit
    PROVE  MediaInv
<1>1. PICK photo \in [Assets -> Sources \cup {Nothing}] :
          /\ asset = [a \in Assets |-> [source |-> photo[a], deleted |-> FALSE]]
          /\ bucket = [o \in Objects |-> photo[o[1]]]
  BY DEF MediaInit
<1>2. LibraryOK
  <2>1. revisions = <<>> /\ revisions \in Seq(Placements) /\ Len(revisions) <= MaxRevisions
    BY MediaAssumption DEF MediaInit
  <2> QED BY <1>1, <2>1 DEF MediaInit, LibraryOK, AssetRows, Deletions
<1>3. BucketOK
  BY <1>1 DEF BucketOK, Objects
<1>4. RequestsOK
  BY DEF MediaInit, RequestsOK, Claims
<1>5. AttemptsOK
  BY DEF MediaInit, AttemptsOK, Steps
<1>6. AttemptsFit
  BY DEF MediaInit, AttemptsFit, AttemptFits, FitsAt, Uploading, Placing, Deleting, Removing, Stored
<1>7. LibraryInv
  <2>1. DOMAIN revisions = {}
    BY DEF MediaInit
  <2>2. \A a \in Assets : bucket[<<a, "source">>] = asset[a].source /\ ~asset[a].deleted
    BY <1>1 DEF Objects
  <2> QED BY <2>1, <2>2 DEF LibraryInv, LibraryIsWhole, DeletedWasThere
<1>8. RequestInv
  <2>1. DOMAIN revisions = {}
    BY DEF MediaInit
  <2>2. ReceiptEndsClaim /\ ReceiptIsTrue
    BY DEF MediaInit, ReceiptEndsClaim, ReceiptIsTrue
  <2>3. RevisionHasReceipt
    BY <2>1 DEF RevisionHasReceipt
  <2>4. DoneHasReceipt
    BY DEF MediaInit, DoneHasReceipt
  <2>5. ClaimWasCalled
    BY MediaAssumption DEF MediaInit, ClaimWasCalled, NoMediaClaim
  <2> QED BY <2>2, <2>3, <2>4, <2>5 DEF RequestInv
<1> QED BY <1>2, <1>3, <1>4, <1>5, <1>6, <1>7, <1>8, MediaTypesAre DEF MediaInv, MediaTypes

LEMMA MediaInvStep ==
    ASSUME MediaInv, MediaNext
    PROVE  MediaInv'
<1>1. ASSUME NEW t \in Attempts, UploadStep(t) PROVE MediaInv'
  BY <1>1, LoadKeeps, RecordKeeps, PutKeeps, CreateKeeps DEF UploadStep
<1>2. ASSUME NEW t \in Attempts, PlaceStep(t) PROVE MediaInv'
  BY <1>2, CropKeeps, SaveKeeps DEF PlaceStep
<1>3. ASSUME NEW t \in Attempts, DeleteStep(t) PROVE MediaInv'
  BY <1>3, BeginKeeps, ReserveKeeps, AdoptKeeps, TombstoneKeeps, DeleteObjectKeeps, CompleteKeeps
     DEF DeleteStep
<1>4. ASSUME NEW t \in Attempts, RenewalTimer(t) PROVE MediaInv'
  <2>1. key[t] \in Keys /\ body[t] \in Commands /\ body[t] # NoBody
    BY <1>4, AtWork, CommandFields DEF RenewalTimer
  <2>2. mediaClaim[key[t]] # NoMediaClaim
    BY <1>4, <2>1 DEF RenewalTimer, MayRenew, HoldsClaim, NoMediaClaim
  <2> QED BY <1>4, <2>1, <2>2, ClaimAges DEF RenewalTimer
<1>5. ASSUME NEW t \in Attempts, AttemptDies(t) PROVE MediaInv'
  BY <1>5, AttemptStops DEF AttemptDies, Over, Working, Waiting
<1>6. ASSUME NEW t \in Attempts, StatementFails(t) PROVE MediaInv'
  BY <1>6, AtWork, AttemptFails DEF StatementFails
<1>7. ASSUME NEW k \in Keys, MediaClaimExpires(k) PROVE MediaInv'
  <2>1. mediaClaim[k] # NoMediaClaim /\ FALSE \in BOOLEAN
    BY <1>7 DEF MediaClaimExpires, NoMediaClaim
  <2> QED BY <1>7, <2>1, ClaimAges DEF MediaClaimExpires
<1> QED BY <1>1, <1>2, <1>3, <1>4, <1>5, <1>6, <1>7, CallKeeps, ClaimStepKeeps DEF MediaNext

LEMMA MediaInvStutters ==
    ASSUME MediaInv, UNCHANGED mediaVars
    PROVE  MediaInv'
<1>1. UNCHANGED <<asset, reservation, revisions, mediaClaim, receipt, bucket, pc, key, body>>
  BY DEF mediaVars, libraryVars, requestVars, attemptVars
<1>2. LibraryGrows /\ LibraryInv'
  BY <1>1, LibraryStays DEF libraryVars
<1>3. AttemptsFit'
  BY <1>1, MediaInvParts DEF AttemptsFit, AttemptFits, FitsAt, Exists, Photo
<1>4. RequestInv'
  BY <1>1, <1>2, MediaInvParts, RequestsKept DEF RequestInv, ReceiptEndsClaim
<1>5. MediaTypes'
  BY <1>1, MediaInvParts, MediaTypesKept DEF MediaTypes, libraryVars, requestVars, attemptVars
<1> QED BY <1>2, <1>3, <1>4, <1>5, MediaInvWillBe

LEMMA MediaInvHolds == MediaSpec => []MediaInv
<1>1. MediaInv /\ [MediaNext]_mediaVars => MediaInv'
  BY MediaInvStep, MediaInvStutters
<1> QED BY <1>1, MediaInitInv, PTL DEF MediaSpec

-----------------------------------------------------------------------------
(* The theorems *)

\* Every row keeps its fields, and every attempt its key and request.
THEOREM MediaTypeCorrect == MediaSpec => []MediaTypeOK
<1>1. MediaInv => MediaTypeOK
  BY DEF MediaInv
<1> QED BY <1>1, MediaInvHolds, PTL

\* The catalogue, the bucket and the revisions agree, whatever attempts overlap,
\* lose their claims, die or are adopted between their steps.
THEOREM LibraryStaysWhole == MediaSpec => []LibraryIsWhole
<1>1. MediaInv => LibraryIsWhole
  BY DEF MediaInv, LibraryInv
<1> QED BY <1>1, MediaInvHolds, PTL

\* A request is carried out once, and a success that is reported was one.
THEOREM AnswersAreTrue == MediaSpec => []AnsweredIsDone
<1>1. ASSUME MediaInv PROVE AnsweredIsDone
  <2>1. AttemptsOK /\ RequestInv
    BY <1>1, MediaInvParts
  <2>2. ASSUME NEW t \in Attempts, pc[t] = "done"
        PROVE  Carried(key[t], body[t]) /\ body[t].kind \in {"upload", "replace", "crop", "delete"}
    <3>1. /\ key[t] \in Keys /\ body[t] # NoBody
          /\ body[t].kind \in {"upload", "replace", "crop", "delete"}
      BY <2>1, <2>2, CalledFields
    <3>2. receipt[key[t]] = body[t]
      BY <2>1, <2>2 DEF RequestInv, DoneHasReceipt
    <3> QED BY <2>1, <3>1, <3>2 DEF RequestInv, ReceiptIsTrue
  <2>3. ASSUME NEW t \in Attempts, pc[t] = "done"
        PROVE  CASE body[t].kind = "upload" -> asset[Photo(t)].source = body[t].source
                 [] body[t].kind = "delete" -> asset[Photo(t)].deleted
                 [] OTHER -> \E i \in DOMAIN revisions : /\ revisions[i].key = key[t]
                                                        /\ revisions[i].asset = Photo(t)
    BY <2>2, <2>3 DEF Carried, Photo
  <2> QED BY <2>1, <2>3 DEF AnsweredIsDone, RequestInv, RevisionHasReceipt
<1> QED BY <1>1, MediaInvHolds, PTL
=============================================================================
