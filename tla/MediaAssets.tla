----------------------------- MODULE MediaAssets -----------------------------
(***************************************************************************)
(* The media library of a site: photos are uploaded, placed, cropped and   *)
(* deleted.                                                                *)
(*                                                                         *)
(* A change writes the database and the bucket in separate steps.  Every   *)
(* attempt at a change claims the idempotency key of its request for       *)
(* thirty seconds and renews the claim; a claim that was not renewed is    *)
(* taken over.  A receipt tells later attempts what the request did.       *)
(* Attempts end anywhere, and an attempt that lost its claim goes on until *)
(* a statement that asks for the claim stops it.                           *)
(***************************************************************************)
EXTENDS Naturals, Sequences, FiniteSets

CONSTANTS
    Attempts,      \* calls of a command; each makes a claim token of its own
    Keys,          \* idempotency keys
    Assets,        \* asset ids
    Sources,       \* hashes of photos
    MaxRevisions   \* bound: revisions of the one occurrence

Nothing == "nothing"

ASSUME MediaAssumption == /\ MaxRevisions \in Nat
                          /\ Nothing \notin Attempts \cup Keys \cup Sources

\* What a request asks for; its hash tells two of them apart.
Upload == [kind : {"upload"}, asset : Assets, source : Sources, base : {0}]
Place == [kind : {"replace", "crop"}, asset : Assets, source : {Nothing},
          base : 0 .. (MaxRevisions - 1)]
Delete == [kind : {"delete"}, asset : Assets, source : {Nothing}, base : {0}]
Commands == Upload \cup Place \cup Delete
NoBody == [kind |-> "none", asset |-> Nothing, source |-> Nothing, base |-> 0]

VARIABLES
    asset,        \* media_assets: the source a row names, whether it is deleted
    reservation,  \* media_asset_deletions: the request that deletes an asset
    revisions,    \* media_occurrence_revisions of one occurrence; the last is its head
    mediaClaim,   \* media_mutation_claims
    receipt,      \* media_mutation_receipts: the request that succeeded
    bucket,       \* the photo each object is, or is made from
    pc, key, body \* where an attempt is, its key and its request

libraryVars == <<asset, reservation, revisions>>
requestVars == <<mediaClaim, receipt>>
attemptVars == <<key, body>>
mediaVars == <<libraryVars, requestVars, bucket, pc, attemptVars>>

-----------------------------------------------------------------------------
Objects == Assets \X {"source", "thumbnail"}
NoAsset == [source |-> Nothing, deleted |-> FALSE]
NoRequest == [key |-> Nothing, body |-> NoBody]
NoMediaClaim == [body |-> NoBody, token |-> Nothing, fresh |-> FALSE]

\* Some photos were uploaded before.
MediaInit ==
    /\ \E photo \in [Assets -> Sources \cup {Nothing}] :
          /\ asset = [a \in Assets |-> [source |-> photo[a], deleted |-> FALSE]]
          /\ bucket = [o \in Objects |-> photo[o[1]]]
    /\ reservation = [a \in Assets |-> NoRequest]
    /\ revisions = <<>>
    /\ mediaClaim = [k \in Keys |-> NoMediaClaim]
    /\ receipt = [k \in Keys |-> NoBody]
    /\ pc = [t \in Attempts |-> "new"]
    /\ key = [t \in Attempts |-> Nothing]
    /\ body = [t \in Attempts |-> NoBody]

Exists(a) == asset[a] # NoAsset
Reserved(a) == reservation[a] # NoRequest

\* The catalogue shows neither a deleted asset nor one that is being deleted.
getAsset(a) == Exists(a) /\ ~asset[a].deleted /\ ~Reserved(a)

Referenced(a) == \E i \in DOMAIN revisions : revisions[i].asset = a

Request(t) == [key |-> key[t], body |-> body[t]]
Photo(t) == body[t].asset
Replayed(t) == receipt[key[t]] = body[t]
ReceiptExists(t) == receipt[key[t]] # NoBody
HoldsClaim(t) == /\ mediaClaim[key[t]].body = body[t]
                 /\ mediaClaim[key[t]].token = t

Goes(t, next) == pc' = [pc EXCEPT ![t] = next]

\* An error inside the lease gives the claim back before the caller sees it.
Fails(t) == Goes(t, "releasing")

-----------------------------------------------------------------------------
(* Every command begins with the receipt and the claim of its key.           *)

CallCommand(t, k, b) ==
    /\ pc[t] = "new"
    /\ key' = [key EXCEPT ![t] = k] /\ body' = [body EXCEPT ![t] = b]
    /\ Goes(t, "replaying")
    /\ UNCHANGED <<libraryVars, requestVars, bucket>>

\* A receipt of the same request is the answer.  An upload is not answered
\* with an asset that is deleted since.
AnswersWith(t) ==
    IF Replayed(t) THEN Goes(t, "done") ELSE Goes(t, "failed")

replayMutation(t) ==
    /\ pc[t] = "replaying"
    /\ IF ~ReceiptExists(t) THEN Goes(t, "admitting")
       ELSE IF body[t].kind = "upload" /\ ~getAsset(Photo(t)) THEN Goes(t, "failed")
       ELSE AnswersWith(t)
    /\ UNCHANGED <<libraryVars, requestVars, bucket, attemptVars>>

\* An upload wants an id nobody used, a replacement an asset of the catalogue.
Admitted(t) ==
    /\ body[t].kind = "upload" => ~Exists(Photo(t))
    /\ body[t].kind = "replace" => getAsset(Photo(t))

admit(t) ==
    /\ pc[t] = "admitting"
    /\ Goes(t, IF Admitted(t) THEN "claiming" ELSE "failed")
    /\ UNCHANGED <<libraryVars, requestVars, bucket, attemptVars>>

\* The loop looks for a receipt before every try.
claimMutation(t) ==
    /\ pc[t] = "claiming"
    /\ IF ReceiptExists(t) THEN AnswersWith(t) ELSE Goes(t, "inserting")
    /\ UNCHANGED <<libraryVars, requestVars, bucket, attemptVars>>

OwnClaim(t) == [body |-> body[t], token |-> t, fresh |-> TRUE]

insertClaim(t) ==
    /\ pc[t] = "inserting"
    /\ IF mediaClaim[key[t]] = NoMediaClaim
       THEN /\ mediaClaim' = [mediaClaim EXCEPT ![key[t]] = OwnClaim(t)]
            /\ Goes(t, "raced")
       ELSE UNCHANGED mediaClaim /\ Goes(t, "overtaking")
    /\ UNCHANGED <<libraryVars, receipt, bucket, attemptVars>>

\* Thirty seconds without a renewal.
MayTakeOver(t) == ~mediaClaim[key[t]].fresh /\ ~ReceiptExists(t)

\* A claim that went away in between fails the attempt like another request.
takeOver(t) ==
    /\ pc[t] = "overtaking"
    /\ \/ /\ mediaClaim[key[t]].body # body[t]
          /\ Goes(t, "failed") /\ UNCHANGED mediaClaim
       \/ /\ mediaClaim[key[t]].body = body[t] /\ MayTakeOver(t)
          /\ mediaClaim' = [mediaClaim EXCEPT ![key[t]] = OwnClaim(t)]
          /\ Goes(t, "raced")
       \/ /\ mediaClaim[key[t]].body = body[t] /\ ~MayTakeOver(t)
          /\ \E next \in {"claiming", "failed"} : Goes(t, next)
          /\ UNCHANGED mediaClaim
    /\ UNCHANGED <<libraryVars, receipt, bucket, attemptVars>>

racedReceipt(t) ==
    /\ pc[t] = "raced"
    /\ IF ReceiptExists(t) THEN AnswersWith(t) ELSE Goes(t, "leasing")
    /\ UNCHANGED <<libraryVars, requestVars, bucket, attemptVars>>

FirstStep(t) == CASE body[t].kind = "upload"  -> "loading"
                  [] body[t].kind = "replace" -> "saving"
                  [] body[t].kind = "crop"    -> "cropping"
                  [] body[t].kind = "delete"  -> "beginning"

MayRenew(t) == HoldsClaim(t) /\ ~ReceiptExists(t)

\* The lease is renewed when it starts and before the last statement.
renewClaim(t) ==
    /\ pc[t] \in {"leasing", "renewing", "ending"}
    /\ IF MayRenew(t)
       THEN /\ mediaClaim' = [mediaClaim EXCEPT ![key[t]].fresh = TRUE]
            /\ Goes(t, CASE pc[t] = "leasing"  -> FirstStep(t)
                         [] pc[t] = "renewing" -> "creating"
                         [] pc[t] = "ending"   -> "completing")
       ELSE UNCHANGED mediaClaim /\ Fails(t)
    /\ UNCHANGED <<libraryVars, receipt, bucket, attemptVars>>

releaseClaim(t) ==
    /\ pc[t] = "releasing"
    /\ mediaClaim' = IF MayRenew(t)
                     THEN [mediaClaim EXCEPT ![key[t]] = NoMediaClaim]
                     ELSE mediaClaim
    /\ Goes(t, "failed")
    /\ UNCHANGED <<libraryVars, receipt, bucket, attemptVars>>

-----------------------------------------------------------------------------
(* Upload: the objects first, the row that shows them last.                  *)

loadExisting(t) ==
    /\ pc[t] = "loading"
    /\ IF ~getAsset(Photo(t)) THEN Goes(t, "putting")
       ELSE IF asset[Photo(t)].source = body[t].source THEN Goes(t, "recording")
       ELSE Fails(t)
    /\ UNCHANGED <<libraryVars, requestVars, bucket, attemptVars>>

\* A receipt is written under the claim, once.
Receipted(t) == receipt' = IF HoldsClaim(t) /\ ~ReceiptExists(t)
                           THEN [receipt EXCEPT ![key[t]] = body[t]]
                           ELSE receipt

record(t) ==
    /\ pc[t] = "recording"
    /\ Receipted(t)
    /\ IF HoldsClaim(t) \/ Replayed(t) THEN Goes(t, "done") ELSE Fails(t)
    /\ UNCHANGED <<libraryVars, mediaClaim, bucket, attemptVars>>

\* An object is written once: it stays what it is, whoever writes it again.
PutOnce(t, object) ==
    bucket' = [bucket EXCEPT ![object] = IF @ = Nothing THEN body[t].source ELSE @]

SameObject(t, object) == bucket[object] \in {Nothing, body[t].source}

\* The thumbnail is optional.  The bucket may fail before or after the write.
put(t) ==
    LET object == <<Photo(t), "source">>
    IN /\ pc[t] = "putting"
       /\ \/ /\ PutOnce(t, object) /\ SameObject(t, object)
             /\ \E next \in {"thumbing", "renewing", "releasing"} : Goes(t, next)
          \/ UNCHANGED bucket /\ Fails(t)
       /\ UNCHANGED <<libraryVars, requestVars, attemptVars>>

\* Two thumbnails of one photo may differ, so that either may be refused.
putVariant(t) ==
    LET object == <<Photo(t), "thumbnail">>
    IN /\ pc[t] = "thumbing"
       /\ \/ /\ PutOnce(t, object) /\ SameObject(t, object)
             /\ \E next \in {"renewing", "releasing"} : Goes(t, next)
          \/ UNCHANGED bucket /\ Fails(t)
       /\ UNCHANGED <<libraryVars, requestVars, attemptVars>>

\* The row and the receipt in one transaction.
MayInsert(t) == HoldsClaim(t) /\ ~Exists(Photo(t))

createAsset(t) ==
    /\ pc[t] = "creating"
    /\ \/ /\ MayInsert(t)
          /\ asset' = [asset EXCEPT ![Photo(t)] =
                          [source |-> body[t].source, deleted |-> FALSE]]
          /\ Receipted(t)
          /\ Goes(t, "done")
       \/ /\ ~MayInsert(t)
          /\ IF /\ Exists(Photo(t)) /\ ~asset[Photo(t)].deleted
                /\ asset[Photo(t)].source = body[t].source
             THEN Goes(t, "recording")
             ELSE Fails(t)
          /\ UNCHANGED <<asset, receipt>>
    /\ UNCHANGED <<reservation, revisions, mediaClaim, bucket, attemptVars>>

UploadStep(t) == loadExisting(t) \/ record(t) \/ put(t) \/ putVariant(t) \/ createAsset(t)

-----------------------------------------------------------------------------
(* Replace and crop: a revision of the occurrence.                           *)

\* A crop is for the photo the occurrence shows, or for its first one.
cropCurrent(t) ==
    /\ pc[t] = "cropping"
    /\ IF /\ getAsset(Photo(t))
          /\ revisions = <<>> \/ revisions[Len(revisions)].asset = Photo(t)
       THEN Goes(t, "saving")
       ELSE Fails(t)
    /\ UNCHANGED <<libraryVars, requestVars, bucket, attemptVars>>

\* Mutant: an asset whose deletion is reserved can still be placed.
SavesOverReservation(t) == /\ Exists(Photo(t)) /\ ~asset[Photo(t)].deleted
                           /\ Len(revisions) = body[t].base
                           /\ HoldsClaim(t)

\* Mutant: an attempt that lost its claim still saves, wherever the head is.
SavesUnclaimed(t) == getAsset(Photo(t))

\* The revision asks for its asset, its base and the claim in one statement.
MaySave(t) == /\ Exists(Photo(t)) /\ ~asset[Photo(t)].deleted
              /\ ~Reserved(Photo(t))
              /\ Len(revisions) = body[t].base
              /\ HoldsClaim(t)

saveOccurrence(t) ==
    /\ pc[t] = "saving"
    /\ \/ /\ MaySave(t)
          /\ revisions' = Append(revisions, [asset |-> Photo(t), key |-> key[t]])
          /\ Receipted(t)
          /\ Goes(t, "done")
       \/ /\ ~MaySave(t)
          /\ IF Replayed(t) THEN Goes(t, "done") ELSE Fails(t)
          /\ UNCHANGED <<revisions, receipt>>
    /\ UNCHANGED <<asset, reservation, mediaClaim, bucket, attemptVars>>

PlaceStep(t) == cropCurrent(t) \/ saveOccurrence(t)

-----------------------------------------------------------------------------
(* Delete: reserve, tombstone, remove the objects, complete.                 *)

\* A deletion may also be taken up where an earlier one left off.
getStoredAsset(t) ==
    /\ pc[t] = "beginning"
    /\ IF Exists(Photo(t)) /\ (asset[Photo(t)].deleted => Reserved(Photo(t)))
       THEN Goes(t, "reserving")
       ELSE Fails(t)
    /\ UNCHANGED <<libraryVars, requestVars, bucket, attemptVars>>

MayReserve(t) == ~Referenced(Photo(t)) /\ HoldsClaim(t) /\ ~Reserved(Photo(t))

reserve(t) ==
    /\ pc[t] = "reserving"
    /\ IF MayReserve(t)
       THEN /\ reservation' = [reservation EXCEPT ![Photo(t)] = Request(t)]
            /\ Goes(t, "tombstoning")
       ELSE UNCHANGED reservation /\ Goes(t, "adopting")
    /\ UNCHANGED <<asset, revisions, requestVars, bucket, attemptVars>>

\* Another request's deletion is adopted when nobody works on it any more.
Abandoned(request) == /\ receipt[request.key] = NoBody
                      /\ ~mediaClaim[request.key].fresh

adopt(t) ==
    LET reserved == reservation[Photo(t)]
        adopted == /\ Reserved(Photo(t)) /\ reserved # Request(t)
                   /\ Abandoned(reserved) /\ HoldsClaim(t)
    IN /\ pc[t] = "adopting"
       /\ reservation' = IF adopted
                         THEN [reservation EXCEPT ![Photo(t)] = Request(t)]
                         ELSE reservation
       /\ IF adopted \/ reserved = Request(t) THEN Goes(t, "tombstoning") ELSE Fails(t)
       /\ UNCHANGED <<asset, revisions, requestVars, bucket, attemptVars>>

MayTombstone(t) == reservation[Photo(t)] = Request(t) /\ HoldsClaim(t)

tombstoneAssetDeletion(t) ==
    /\ pc[t] = "tombstoning"
    /\ IF MayTombstone(t)
       THEN /\ asset' = [asset EXCEPT ![Photo(t)].deleted = TRUE]
            /\ Goes(t, "deleting")
       ELSE UNCHANGED asset /\ Fails(t)
    /\ UNCHANGED <<reservation, revisions, requestVars, bucket, attemptVars>>

\* The source, then the thumbnail.  Either call may fail, before or after it.
deleteObject(t) ==
    LET object == <<Photo(t), IF pc[t] = "deleting" THEN "source" ELSE "thumbnail">>
        next == IF pc[t] = "deleting" THEN "clearing" ELSE "ending"
    IN /\ pc[t] \in {"deleting", "clearing"}
       /\ \/ /\ bucket' = [bucket EXCEPT ![object] = Nothing]
             /\ Goes(t, next) \/ Fails(t)
          \/ UNCHANGED bucket /\ Fails(t)
       /\ UNCHANGED <<libraryVars, requestVars, attemptVars>>

MayComplete(t) == MayTombstone(t) /\ asset[Photo(t)].deleted

completeAssetDeletion(t) ==
    /\ pc[t] = "completing"
    /\ IF MayComplete(t)
       THEN /\ reservation' = [reservation EXCEPT ![Photo(t)] = NoRequest]
            /\ Receipted(t)
       ELSE UNCHANGED <<reservation, receipt>>
    /\ IF MayComplete(t) \/ Replayed(t) THEN Goes(t, "done") ELSE Fails(t)
    /\ UNCHANGED <<asset, revisions, mediaClaim, bucket, attemptVars>>

DeleteStep(t) == \/ getStoredAsset(t) \/ reserve(t) \/ adopt(t)
                 \/ tombstoneAssetDeletion(t) \/ deleteObject(t)
                 \/ completeAssetDeletion(t)

-----------------------------------------------------------------------------
(* The world.                                                                *)

Working == {"loading", "recording", "putting", "thumbing", "renewing", "creating",
            "cropping", "saving", "beginning", "reserving", "adopting",
            "tombstoning", "deleting", "clearing", "ending", "completing"}
Waiting == {"replaying", "admitting", "claiming", "inserting", "overtaking", "raced",
            "leasing", "releasing"}

\* Every ten seconds while the attempt works.
RenewalTimer(t) ==
    /\ pc[t] \in Working
    /\ MayRenew(t) /\ ~mediaClaim[key[t]].fresh
    /\ mediaClaim' = [mediaClaim EXCEPT ![key[t]].fresh = TRUE]
    /\ UNCHANGED <<libraryVars, receipt, bucket, pc, attemptVars>>

\* The isolate stalls or the renewals fail for thirty seconds.
MediaClaimExpires(k) ==
    /\ mediaClaim[k].fresh
    /\ mediaClaim' = [mediaClaim EXCEPT ![k].fresh = FALSE]
    /\ UNCHANGED <<libraryVars, receipt, bucket, pc, attemptVars>>

AttemptDies(t) ==
    /\ pc[t] \in Working \cup Waiting
    /\ Goes(t, "failed")
    /\ UNCHANGED <<libraryVars, requestVars, bucket, attemptVars>>

\* Any statement inside the lease may fail, and is not tried again.
StatementFails(t) ==
    /\ pc[t] \in Working
    /\ Fails(t)
    /\ UNCHANGED <<libraryVars, requestVars, bucket, attemptVars>>

ClaimStep(t) == \/ replayMutation(t) \/ admit(t) \/ claimMutation(t) \/ insertClaim(t)
                \/ takeOver(t) \/ racedReceipt(t) \/ renewClaim(t) \/ releaseClaim(t)

MediaNext ==
    \/ \E t \in Attempts : \/ \E k \in Keys, b \in Commands : CallCommand(t, k, b)
                           \/ ClaimStep(t) \/ UploadStep(t) \/ PlaceStep(t)
                           \/ DeleteStep(t) \/ RenewalTimer(t)
                           \/ AttemptDies(t) \/ StatementFails(t)
    \/ \E k \in Keys : MediaClaimExpires(k)

MediaSpec == MediaInit /\ [][MediaNext]_mediaVars

-----------------------------------------------------------------------------
\* Every row has its fields, and an attempt that was called its key and request.
MediaTypeOK ==
    /\ asset \in [Assets -> [source : Sources \cup {Nothing}, deleted : BOOLEAN]]
    /\ reservation \in [Assets -> [key : Keys, body : Delete] \cup {NoRequest}]
    /\ revisions \in Seq([asset : Assets, key : Keys])
    /\ Len(revisions) <= MaxRevisions
    /\ mediaClaim \in [Keys -> [body : Commands, token : Attempts, fresh : BOOLEAN]
                               \cup {NoMediaClaim}]
    /\ receipt \in [Keys -> Commands \cup {NoBody}]
    /\ bucket \in [Objects -> Sources \cup {Nothing}]
    /\ pc \in [Attempts -> Working \cup Waiting \cup {"new", "done", "failed"}]
    /\ key \in [Attempts -> Keys \cup {Nothing}]
    /\ body \in [Attempts -> Commands \cup {NoBody}]
    /\ \A t \in Attempts : pc[t] # "new" => key[t] \in Keys /\ body[t] \in Commands

\* A photo the catalogue shows is in the bucket and is the one its row names; and
\* a photo that any revision of an occurrence ever used is one the catalogue shows,
\* neither deleted nor being deleted.
LibraryIsWhole ==
    /\ \A a \in Assets : getAsset(a) => bucket[<<a, "source">>] = asset[a].source
    /\ \A i \in DOMAIN revisions : getAsset(revisions[i].asset)

\* A request places a photo once, however many attempts are made at it; and a
\* call that succeeded, itself or by a receipt, tells of what was really done.
AnsweredIsDone ==
    /\ \A i, j \in DOMAIN revisions : revisions[i].key = revisions[j].key => i = j
    /\ \A t \in Attempts : pc[t] = "done" =>
          CASE body[t].kind = "upload" -> asset[Photo(t)].source = body[t].source
            [] body[t].kind = "delete" -> asset[Photo(t)].deleted
            [] OTHER -> \E i \in DOMAIN revisions : /\ revisions[i].key = key[t]
                                                   /\ revisions[i].asset = Photo(t)
=============================================================================
