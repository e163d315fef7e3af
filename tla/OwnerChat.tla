------------------------------ MODULE OwnerChat ------------------------------
(***************************************************************************)
(* What a property owner can rely on in a chat with the copilot            *)
(* (OwnerCopilot): the listing is deployed once and as shown, nothing is   *)
(* removed unasked, and who answers what is asked gets it.                 *)
(*                                                                         *)
(* OwnerCopilot is an instance here, so that one module can speak of the   *)
(* owner's chat and of OrderCopilot: both have a Turn, faults and so on.   *)
(***************************************************************************)
EXTENDS Naturals

CONSTANTS Texts, Numbers, Properties, MaxOwnerFaults  \* as in OwnerCopilot

VARIABLES create, removal, edit,   \* the sessions
          chat,                    \* what the history says
          live, made, stray,       \* the listings
          ownerFaults, ownerPatient

Owner == INSTANCE OwnerCopilot
           WITH MaxFaults <- MaxOwnerFaults, faults <- ownerFaults, patient <- ownerPatient

ASSUME OwnerAssumption == Owner!Distinct

OwnerSpec == Owner!Spec
OwnerFairSpec == Owner!FairSpec
-----------------------------------------------------------------------------
(* Sessions, history and database hold values of their types: a field the  *)
(* code asks for next is a field, an answer or a gap is kept in each.      *)
OwnerTypeOK ==
    /\ create \in [progress : BOOLEAN, filled : Owner!Drafts,
                   next : Owner!Fields \cup {Owner!None},
                   awaiting : BOOLEAN, failed : BOOLEAN, limit : BOOLEAN]
    /\ removal \in [progress : BOOLEAN, target : Properties \cup {Owner!None}]
    /\ edit \in Properties \cup {Owner!None}
    /\ chat.recovered \in Owner!Drafts /\ chat.shown \in Owner!Drafts
    /\ live \subseteq Properties
    /\ made \subseteq Owner!Drafts /\ stray \subseteq Owner!Drafts
    /\ ownerFaults \in 0..MaxOwnerFaults
    /\ ownerPatient \in BOOLEAN

(* A chat makes one listing, also when the process restarts: what its      *)
(* memory no longer knows, the success line in the history still says.     *)
(* Every further one has a reason the owner can see or that was lost:      *)
(*  - as long as no create has succeeded, one that failed, and said so,    *)
(*    may have left its listing behind, and a changed draft makes another  *)
(*    (a retry of the same draft goes on with the listing that is there);  *)
(*  - where the history ends with a failure and the reply to the retry was *)
(*    lost, the code overrules its own limit with the history;             *)
(*  - a lost success line and a restart leave nothing that knows of the    *)
(*    listing.                                                             *)
OneListingPerChat ==
    [][\/ made' \subseteq made /\ made' \cup stray' \subseteq made \cup stray
       \/ made \cup stray = {}
       \/ made = {} /\ (chat.outcome = "failed" \/ ownerFaults > 0)
       \/ ownerFaults > 0 /\ chat.outcome = "failed"
       \/ ownerFaults > 1 /\ chat.outcome # "created"]_(Owner!vars)

(* What is made is what the owner saw in the last summary, as long as      *)
(* no reply was lost and the process did not restart: no answer in between *)
(* changes the draft without a new summary.  (After a No and an older      *)
(* failure line there is no summary to compare with: a bare Yes then       *)
(* deploys the draft the owner has just declined.)                         *)
CreatedAsShown ==
    [][ownerFaults = 0 /\ chat.shown # Owner!Empty =>
           \A d \in (made' \ made) \cup (stray' \ stray) : d = chat.shown]_(Owner!vars)

(* A listing is removed only if the last delete prompt of this very chat   *)
(* named it: sessions of an earlier chat on the thread are gone.           *)
RemovedWasPrompted ==
    [][\A p \in live \ live' : ownerFaults > 0 \/ chat.prompted = p]_(Owner!vars)

(* An owner who answers every question and confirms every summary gets the *)
(* listing, from whatever the chat and the sessions have come to, unless a *)
(* property was opened for editing in the chat: that session never ends    *)
(* and refuses every later create field.                                   *)
PatienceRewarded == ownerPatient ~> (made # {} \/ edit # Owner!None)
=============================================================================
