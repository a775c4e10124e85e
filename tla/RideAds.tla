------------------------------- MODULE RideAds -------------------------------
(***************************************************************************)
(* UZA Move, the ads that are not shown for free: one campaign, billed per *)
(* impression (cpm) or per click (cpc), its status set by the advertiser   *)
(* and the ops, its spending a number each call reads and writes back.     *)
(***************************************************************************)
EXTENDS Naturals, FiniteSets

CONSTANTS
  AdPrice, AdBudget,  \* of one impression or click; budget of the campaign
  MaxServed,          \* bound: impressions and clicks of a behaviour, recorded or not
  AdCalls

ASSUME AdAssumption ==
  /\ AdPrice \in Nat \ {0} /\ AdBudget \in Nat /\ MaxServed \in Nat
  /\ IsFiniteSet(AdCalls)

VARIABLES
  campaign, billing,       \* ad_campaigns.status and bill_model
  spent,                   \* ad_campaigns.spent
  impressions, clicks,     \* rows of ad_impressions, ad_clicks
  unrecorded,              \* history: those to bill whose row could not be inserted
  adCall                   \* what each call has read and does next

served == <<impressions, clicks, unrecorded>>
adVars == <<campaign, billing, spent, served, adCall>>

NoAd == [pc |-> "idle"]
CampaignStatuses == {"draft", "pending_review", "approved", "rejected", "running", "paused", "ended"}
AdRequests ==
  {NoAd} \cup [pc : {"show", "bill"}, spent : Nat] \cup [pc : {"click", "read"}]

AdsTypeOK ==
  /\ campaign \in CampaignStatuses /\ billing \in {"cpm", "cpc"}
  /\ spent \in Nat /\ impressions \in Nat /\ clicks \in Nat /\ unrecorded \in Nat
  /\ adCall \in [AdCalls -> AdRequests]

\* createCampaign.
AdsInit ==
  /\ campaign = "pending_review" /\ billing \in {"cpm", "cpc"}
  /\ spent = 0 /\ impressions = 0 /\ clicks = 0 /\ unrecorded = 0
  /\ adCall = [c \in AdCalls |-> NoAd]

\* setCampaignStatus: the ops set any status, the advertiser running and paused;
\* neither reads what it was.
SetCampaignStatus(s) ==
  /\ campaign' = s
  /\ UNCHANGED <<billing, spent, served, adCall>>

\* Mutant: the campaign is billed before the impression is recorded.
BillsFirst == "bill"

\* The impression is recorded, then the campaign is billed.
ShowsFirst == "show"

\* A row is inserted, or not: its error is not looked at, and the call goes on to bill
\* what the campaign is billed by.
Recorded(kind) ==
  /\ impressions + clicks + unrecorded < MaxServed
  /\ \/ /\ impressions' = IF kind = "cpm" THEN impressions + 1 ELSE impressions
        /\ clicks' = IF kind = "cpc" THEN clicks + 1 ELSE clicks
        /\ UNCHANGED unrecorded
     \/ /\ unrecorded' = IF kind = billing THEN unrecorded + 1 ELSE unrecorded
        /\ UNCHANGED <<impressions, clicks>>

\* serveAd: a running campaign with budget left.
ServeAdReads(c) ==
  /\ adCall[c] = NoAd
  /\ campaign = "running" /\ spent < AdBudget
  /\ adCall' = [adCall EXCEPT ![c] = [pc |-> ShowsFirst, spent |-> spent]]
  /\ UNCHANGED <<campaign, billing, spent, served>>

ServeAdShows(c) ==
  /\ adCall[c].pc = "show" /\ Recorded("cpm")
  /\ adCall' = [adCall EXCEPT ![c] =
                  IF billing = "cpm" THEN [pc |-> "bill", spent |-> adCall[c].spent] ELSE NoAd]
  /\ UNCHANGED <<campaign, billing, spent>>

\* recordAdClick: the campaign runs; the budget is not looked at.
RecordAdClickReads(c) ==
  /\ adCall[c] = NoAd /\ campaign = "running"
  /\ adCall' = [adCall EXCEPT ![c] = [pc |-> "click"]]
  /\ UNCHANGED <<campaign, billing, spent, served>>

RecordAdClickRecords(c) ==
  /\ adCall[c].pc = "click" /\ Recorded("cpc")
  /\ adCall' = [adCall EXCEPT ![c] = [pc |-> "read"]]
  /\ UNCHANGED <<campaign, billing, spent>>

RecordAdClickReadsSpent(c) ==
  /\ adCall[c].pc = "read"
  /\ adCall' = [adCall EXCEPT ![c] = IF billing = "cpc" THEN [pc |-> "bill", spent |-> spent] ELSE NoAd]
  /\ UNCHANGED <<campaign, billing, spent, served>>

\* Both write back what they read, one price more; whether that fails is not looked at.
BillCampaign(c) ==
  /\ adCall[c].pc = "bill"
  /\ spent' \in {spent, adCall[c].spent + AdPrice}
  /\ adCall' = [adCall EXCEPT ![c] = NoAd]
  /\ UNCHANGED <<campaign, billing, served>>

AdCallDies(c) ==
  /\ adCall[c] # NoAd
  /\ adCall' = [adCall EXCEPT ![c] = NoAd]
  /\ UNCHANGED <<campaign, billing, spent, served>>

AdsNext ==
  \/ \E s \in CampaignStatuses : SetCampaignStatus(s)
  \/ \E c \in AdCalls :
       \/ ServeAdReads(c) \/ ServeAdShows(c)
       \/ RecordAdClickReads(c) \/ RecordAdClickRecords(c) \/ RecordAdClickReadsSpent(c)
       \/ BillCampaign(c) \/ AdCallDies(c)

AdsSpec == AdsInit /\ [][AdsNext]_adVars

\* What the campaign is billed by, recorded or not.
Served == unrecorded + (IF billing = "cpm" THEN impressions ELSE clicks)

\* Calls that race lose each other's spending, calls that die never bill and a row that is
\* not inserted is billed all the same: an advertiser is never billed for more than was
\* served, and by impressions for less than one price over the budget, however many calls
\* saw the same budget left.
NeverOverbilled ==
  /\ spent <= AdPrice * Served
  /\ billing = "cpm" => spent < AdBudget + AdPrice
==============================================================================
