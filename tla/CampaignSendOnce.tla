--------------------------- MODULE CampaignSendOnce ---------------------------
(***************************************************************************)
(* What a campaign's bulk delivery promises its readers: the audience is   *)
(* settled before anything leaves, the provider takes the campaign over    *)
(* at most once and for that audience, and "sent" is said only of a        *)
(* campaign the provider took over.  CampaignBulkDelivery implements it.   *)
(***************************************************************************)
EXTENDS Naturals

CONSTANT Recipients

VARIABLES
    audience,   \* the recipients of the one send, {} before it is opened
    taken,      \* how often the provider took the campaign over
    handed,     \* whom it took it over for
    reported    \* the campaign is called sent

sendVars == <<audience, taken, handed, reported>>

SendInit ==
    /\ audience = {} /\ handed = {}
    /\ taken = 0
    /\ reported = FALSE

Open ==
    /\ audience = {}
    /\ audience' \in (SUBSET Recipients) \ {{}}
    /\ UNCHANGED <<taken, handed, reported>>

Take ==
    /\ audience # {} /\ taken = 0
    /\ taken' = 1
    /\ handed' = audience
    /\ UNCHANGED <<audience, reported>>

Report ==
    /\ taken = 1 /\ ~reported
    /\ reported' = TRUE
    /\ UNCHANGED <<audience, taken, handed>>

SendNext == Open \/ Take \/ Report

SendSpec == SendInit /\ [][SendNext]_sendVars
===============================================================================
