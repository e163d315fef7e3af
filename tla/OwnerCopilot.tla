---------------------------- MODULE OwnerCopilot ----------------------------
(***************************************************************************)
(* One chat of a property owner with the copilot: the create, edit and     *)
(* delete workflows, each with a session kept in the memory of the server  *)
(* process, and the preflights that answer a turn before the language      *)
(* model sees it.  The client sends the whole visible chat with each turn; *)
(* of that history the code reads what `chat` keeps.  The six fields of    *)
(* the form are three kinds: free text ("name"), numeric or checked        *)
(* ("supply") and optional ("rent").  The language model is obedient: it   *)
(* calls a tool only as its prompt and the tool descriptions tell it to.   *)
(* What a chat must keep to is stated in OwnerChat.                        *)
(***************************************************************************)
EXTENDS Naturals, Sequences, FiniteSets

CONSTANTS Texts,      \* answers that are no numbers
          Numbers,    \* answers that are numbers
          Properties, \* the owner's listings from before the chat
          MaxFaults   \* bound: restarts and lost replies per chat, and of them and
                      \* the listings that failed creates leave behind together

None  == "none"

(* What the constants are taken to be (assumed in OwnerChat) *)
Distinct == /\ Texts \cap Numbers = {}
            /\ None \notin Texts \cup Numbers \cup Properties
            /\ Numbers # {}
            /\ MaxFaults \in Nat

Skip  == "skip"     \* "0", "skip", "no": no rent yet
Words == "words"    \* a whole sentence taken as the name

VARIABLES create,   \* session CREATE_PROPERTY of the thread
          removal,  \* session DELETE_PROPERTY
          edit,     \* property of session EDIT_PROPERTY, or None
          chat,     \* what the history says
          live,     \* listings that are not archived
          made,     \* drafts that creates of this chat turned into listings
          stray,    \* drafts of the listings that its failed creates left behind
          faults,   \* restarts and lost replies so far in this chat
          patient   \* from now on the owner only answers what is asked

vars == <<create, removal, edit, chat, live, made, stray, faults, patient>>

Fields == {"name", "supply", "rent"}
Required == Fields \ {"rent"}
Answers == Texts \cup Numbers
Empty == [f \in Fields |-> None]
Drafts == [Fields -> Answers \cup {None, Skip, Words}]

Utterances ==
         [k : {"create", "yes", "no", "browse"}]
    \cup [k : {"say"}, v : Answers]
    \cup [k : {"change"}, f : Fields, v : Numbers]
    \cup [k : {"remove"}, p : Properties, the : BOOLEAN]   \* "delete [the property] p"
    \cup [k : {"edit"}, p : Properties]

(* parse_yes_no_confirmation: a sentence with "delete" in it is a No *)
YesNo(u) == CASE u.k = "yes" -> "yes"
              [] u.k \in {"no", "remove"} -> "no"
              [] OTHER -> None

(* parse_delete_property_confirm_intent: "delete the property" is a Yes *)
DeleteYesNo(u) == CASE u.k = "yes" \/ (u.k = "remove" /\ u.the) -> "yes"
                    [] u.k = "no" -> "no"
                    [] OTHER -> None

(* normalize_create_property_field: the value of an answer to field f *)
AsAnswer(f, u) ==
    CASE u.k = "say" /\ (f = "name" \/ u.v \in Numbers) -> u.v
      [] f = "name" /\ u.k \notin {"say", "create"} -> Words
      [] f = "rent" /\ u.k = "no" -> Skip
      [] f # "name" /\ u.k = "change" -> u.v
      [] OTHER -> None

Complete(d) == \A f \in Required : d[f] # None
NeedsRent(d) == Complete(d) /\ d["rent"] = None
FirstMissing(d) == CASE d["name"] = None -> "name"
                     [] d["supply"] = None -> "supply"
                     [] OTHER -> None
NextField(d) == IF NeedsRent(d) THEN "rent" ELSE FirstMissing(d)
-----------------------------------------------------------------------------
(* The history.  recovered: the first answer given to each question, or    *)
(* the first value a summary showed; pending: the question the next answer *)
(* belongs to; last: what the assistant said last; shown: the last         *)
(* summary since the last No; prompted: the last delete prompt; outcome: of the last create; *)
(* asked: a create question or summary is in the history.                  *)
NewChat == [recovered |-> Empty, pending |-> None, last |-> None, shown |-> Empty,
            prompted |-> None, outcome |-> None, asked |-> FALSE, fresh |-> TRUE]

Hear(c, u) ==
    LET f == c.pending
        taken == f # None /\ c.recovered[f] = None
        value == IF f = "rent" /\ u.k = "no" THEN Skip
                 ELSE IF YesNo(u) # None THEN None ELSE AsAnswer(f, u)
    IN IF taken /\ f = "name" /\ u.k = "create" THEN c
       ELSE IF taken THEN [c EXCEPT !.recovered[f] = value, !.pending = None]
       ELSE [c EXCEPT !.pending = None]

Merge(d, e) == [f \in Fields |-> IF d[f] # None THEN d[f] ELSE e[f]]

(* r: [k |-> "ask", f] [k |-> "summary", d] [k |-> "confirm", p] or a bare kind *)
Say(c, r) ==
    LET d == [c EXCEPT !.last = r.k, !.fresh = FALSE]
    IN CASE r.k = "ask" -> [d EXCEPT !.pending = r.f, !.last = r.f,
                                     !.asked = @ \/ r.f \in {"name", "rent"}]
         [] r.k = "cleared" -> [d EXCEPT !.pending = "name", !.asked = TRUE, !.shown = Empty]
         [] r.k = "which" -> [d EXCEPT !.pending = "name"]
         [] r.k = "summary" -> [d EXCEPT !.pending = None, !.shown = r.d, !.asked = TRUE,
                                         !.recovered = Merge(@, r.d)]
         [] r.k = "confirm" -> [d EXCEPT !.prompted = r.p]
         [] r.k = "editing" -> [d EXCEPT !.pending = None]
         [] r.k \in {"created", "failed"} -> [d EXCEPT !.outcome = r.k]
         [] OTHER -> d

AskedFor(c, f) == c.last = f \/ (f = "name" /\ c.last \in {"cleared", "which"})
Backfill(c, d) == IF c.outcome = "created" THEN d ELSE Merge(d, c.recovered)
-----------------------------------------------------------------------------
NoDraft == [progress |-> FALSE, filled |-> Empty, next |-> None,
            awaiting |-> FALSE, failed |-> FALSE, limit |-> FALSE]
Draft(d, next) == [NoDraft EXCEPT !.progress = TRUE, !.filled = d, !.next = next]
Completed == [NoDraft EXCEPT !.limit = TRUE]
NoRemoval == [progress |-> FALSE, target |-> None]

(* A turn works on the sessions and the database together *)
Here == [create |-> create, removal |-> removal, edit |-> edit, live |-> live,
         made |-> made, stray |-> stray]
Result(s, r) == [s |-> s, reply |-> r]
Reply(kind) == [k |-> kind]
Ask(f) == [k |-> "ask", f |-> f]

MutForgetsSuccess(c, w) ==
    LET d == Merge(w.filled, c.recovered)
    IN IF c.outcome = "failed" /\ Complete(d)
       THEN [Draft(d, None) EXCEPT !.awaiting = TRUE, !.failed = TRUE] ELSE w
MutHistoryFirst(c, w) ==
    LET d == Merge(c.recovered, w.filled)
    IN CASE c.outcome = "created" -> Completed
         [] c.outcome = "failed" /\ Complete(d) ->
              [Draft(d, None) EXCEPT !.awaiting = TRUE, !.failed = TRUE]
         [] OTHER -> w
Reconcile(c, w) ==
    LET d == Backfill(c, w.filled)
    IN CASE c.outcome = "created" -> IF w.limit THEN w ELSE Completed
         [] c.outcome = "failed" /\ Complete(d) ->
              [Draft(d, None) EXCEPT !.awaiting = TRUE, !.failed = TRUE]
         [] OTHER -> w

Active(s, c, pre) ==
    /\ s.edit = None
    /\ ~pre.limit
    /\ c.outcome # "created"
    /\ pre.progress \/ pre.awaiting \/ Backfill(c, pre.filled) # Empty \/ c.asked

Collecting(s, c) ==
    LET pre == Reconcile(c, s.create)
        d == Backfill(c, pre.filled)
    IN /\ c.last # "summary"
       /\ ~pre.awaiting
       /\ \/ pre.next # None
          \/ Active(s, c, pre) /\ (~Complete(d) \/ NeedsRent(d))

(* Whether the line reads as the Yes or the No of a create summary *)
Confirms(s, c, u) == IF Collecting(s, c) THEN None ELSE YesNo(u)
-----------------------------------------------------------------------------
Reject(s, d, f) == {Result([s EXCEPT !.create = Draft([d EXCEPT ![f] = None], f)], Ask(f))}
MutNextAfterCancel(s) == {Result([s EXCEPT !.create = Draft(Empty, "cleared")], Reply("cleared"))}
Cancel(s) == {Result([s EXCEPT !.create = Draft(Empty, "name")], Reply("cleared"))}
Summary(s, d, failed) ==
    {Result([s EXCEPT !.create = [Draft(d, None) EXCEPT !.awaiting = TRUE, !.failed = failed]],
            [k |-> "summary", d |-> d])}

(* The listing that a failing create may leave behind, if any *)
Left(s, d) == {e \in {d} \ s.made : faults + Cardinality(s.stray \cup {e}) <= MaxFaults}

(* create_property_record blocks the only event loop until it is over.  It *)
(* commits the row before it deploys the token, so a create that fails may *)
(* leave a listing; for a draft that has one it goes on with that listing. *)
(* A rent above the chain's limit is refused before that (the reply is one *)
(* of the failure lines).                                                  *)
Submit(s, d) ==
    LET again == [Draft(d, None) EXCEPT !.awaiting = TRUE]
        failed == [s EXCEPT !.create = [again EXCEPT !.failed = TRUE]]
        blocked == [s EXCEPT !.create = again]
    IN {Result([s EXCEPT !.create = Completed, !.made = @ \cup {d}, !.stray = @ \ {d}],
               Reply("created")),
        Result(failed, Reply("failed"))}
       \cup {Result([failed EXCEPT !.stray = @ \cup {e}], Reply("failed")) : e \in Left(s, d)}
       \cup {Result(blocked, Reply("failed")) : v \in {d["rent"]} \cap Numbers}

(* args: the fields the call carries, or confirm; absent fields are None *)
NoArgs == [fields |-> Empty, confirm |-> None]
Carries(f, v) == [NoArgs EXCEPT !.fields[f] = v]
Changes(args, d) == \E f \in Fields : args.fields[f] \notin {None, d[f]}

Confirmation(s, c, u, args) ==
    IF args.confirm # None THEN args.confirm
    ELSE IF args.fields # Empty THEN None
    ELSE Confirms(s, c, u)

DropsDraft(pre, u, args) ==
    /\ pre.progress /\ ~pre.limit /\ ~pre.awaiting
    /\ \/ u.k = "create" /\ ~Changes(args, pre.filled)
       \/ /\ args.fields["name"] # None
          /\ pre.filled["name"] \notin {None, args.fields["name"]}

ConfirmationTurn(s, c, u, pre, args) ==
    LET d == Backfill(c, pre.filled)
        t == IF d = pre.filled THEN s
             ELSE [s EXCEPT !.create = [pre EXCEPT !.progress = TRUE, !.filled = d]]
        reading == Confirmation(t, c, u, args)
    IN [s |-> t,
        ends |-> IF ~pre.awaiting /\ ~Complete(d) THEN {}
                 ELSE IF reading = "yes" /\ Complete(d) THEN Submit(t, d)
                 ELSE IF reading = "no" THEN Cancel(t)
                 ELSE {}]

LastLine(s, c, u, d) ==
    LET f == IF s.create.next # None THEN s.create.next ELSE FirstMissing(d)
    IN IF /\ s.edit = None /\ Confirms(s, c, u) = None
          /\ f # None /\ d[f] = None /\ AskedFor(c, f)
       THEN [d EXCEPT ![f] = AsAnswer(f, u)]
       ELSE d

(* The part of fill_create_property after the confirmation turn *)
Collect(s, c, u, pre, args) ==
    LET given == [f \in Fields |-> IF args.fields[f] # None THEN args.fields[f]
                                   ELSE s.create.filled[f]]
        line == LastLine(s, c, u, given)
        built == [s EXCEPT !.create = Draft(line, FirstMissing(line))]
        d == Backfill(c, line)
        asked == IF pre.next # None THEN pre.next ELSE FirstMissing(line)
        t == [s EXCEPT !.create = Draft(d, NextField(d))]
        reading == Confirmation(t, c, u, args)
    IN IF /\ Confirms(built, c, u) = None /\ asked \in {"supply", "rent"}
          /\ d[asked] = None /\ AsAnswer(asked, u) = None
       THEN Reject(s, d, asked)
       ELSE IF NeedsRent(d) THEN {Result(t, Ask("rent"))}
       ELSE IF reading = "no" /\ (pre.awaiting \/ Complete(d)) THEN Cancel(t)
       ELSE IF reading = "yes" /\ Complete(d) THEN Submit(t, d)
       ELSE IF Complete(d) THEN Summary(t, d, pre.failed)
       ELSE {Result(t, Ask(FirstMissing(d)))}

Fill(s0, c, u, args) ==
    LET seen == Reconcile(c, s0.create)
        pre == IF DropsDraft(seen, u, args) THEN NoDraft ELSE seen
        turn == ConfirmationTurn([s0 EXCEPT !.create = pre], c, u, pre, args)
    IN IF seen.limit THEN {Result([s0 EXCEPT !.create = seen], Reply("limit"))}
       ELSE IF s0.edit # None /\ u.k # "create"
            THEN {Result([s0 EXCEPT !.create = seen], Reply("refused"))}
       ELSE IF turn.ends # {} THEN turn.ends
       ELSE Collect(turn.s, c, u, pre, args)

StartCreate(s, c) ==
    LET pre == Reconcile(c, s.create)
        d == Backfill(c, pre.filled)
    IN IF pre.limit THEN {Result([s EXCEPT !.create = pre], Reply("limit"))}
       ELSE IF pre.failed /\ Complete(d) THEN Summary(s, d, TRUE)
       ELSE {Result([s EXCEPT !.create = Draft(Empty, "name")], Ask("name"))}
-----------------------------------------------------------------------------
(* Only listings with a deployed token are found, and those are archived *)
Remove(s, p) == [s EXCEPT !.removal = NoRemoval, !.live = @ \ {p}]

StartRemoval(s, p) ==
    LET target == IF s.removal.target # None THEN s.removal.target ELSE p
    IN IF target = None
       THEN {Result([s EXCEPT !.removal = [progress |-> TRUE, target |-> None]], Reply("which"))}
       ELSE IF target \notin s.live THEN {Result(s, Reply("unknown"))}
       ELSE {Result([s EXCEPT !.removal = [progress |-> TRUE, target |-> target]],
                    [k |-> "confirm", p |-> target])}

ConfirmRemoval(s, yes) ==
    IF yes THEN {Result(Remove(s, s.removal.target), Reply("removed")),
                 Result(s, Reply("refused"))}   \* the update failed: the prompt stays
           ELSE {Result([s EXCEPT !.removal = NoRemoval], Reply("kept"))}

StartEdit(s, p) ==
    IF p \notin s.live THEN {Result(s, Reply("unknown"))}
    ELSE {Result([s EXCEPT !.edit = p], Reply("editing"))}

ApplyEdit(s) == {Result(s, Reply("saved"))}
-----------------------------------------------------------------------------
(* The preflights; the empty set means that the preflight leaves the turn  *)
(* to the next one.                                                        *)
TryBrowse(s, u) == IF u.k = "browse" THEN {Result(s, Reply("overview"))} ELSE {}

TryEdit(s, u) ==
    IF s.edit # None /\ u.k = "change" /\ u.f # "supply" THEN ApplyEdit(s) ELSE {}

Idle(s, c, u) == \* neither create preflight may touch this turn
    LET pre == Reconcile(c, s.create)
    IN s.edit # None \/ Confirms(s, c, u) # None \/ pre.limit \/ pre.awaiting
       \/ ~Active(s, c, pre)

TryAnswer(s, c, u) ==
    LET pre == Reconcile(c, s.create)
        d == Backfill(c, pre.filled)
        f == IF pre.next # None THEN pre.next ELSE NextField(d)
    IN IF Idle(s, c, u) \/ u.k = "create" \/ f = None THEN {}
       ELSE IF f # "name" /\ AsAnswer(f, u) = None THEN Reject(s, pre.filled, f)
       ELSE Fill(s, c, u, Carries(f, AsAnswer(f, u)))

TrySummary(s, c, u) ==
    LET d == Backfill(c, Reconcile(c, s.create).filled)
    IN IF Idle(s, c, u) \/ ~Complete(d) \/ NeedsRent(LastLine(s, c, u, d)) THEN {}
       ELSE {x \in Fill(s, c, u, NoArgs) : x.s.create.awaiting}

TryRemoval(s, u) ==
    CASE ~s.removal.progress -> {}
      [] s.removal.target # None -> IF DeleteYesNo(u) # None
                                    THEN ConfirmRemoval(s, DeleteYesNo(u) = "yes") ELSE {}
      [] u.k = "remove" -> StartRemoval(s, u.p)
      [] u.k \in {"say", "change"} -> {Result(s, Reply("unknown"))}
      [] OTHER -> {}

TrySubmit(s, c, u) ==
    LET pre == Reconcile(c, s.create)
        d == Backfill(c, pre.filled)
    IN IF /\ Confirms(s, c, u) = "yes"
          /\ ~pre.limit
          /\ Complete(d) /\ ~NeedsRent(d)
       THEN Fill(s, c, u, NoArgs) ELSE {}

(* What the model may do with a turn that no preflight answered *)
Model(s, c, u) ==
    LET calls == CASE u.k = "say" /\ c.last \in Fields -> {NoArgs}
                   [] u.k = "change" /\ s.create.awaiting -> {Carries(u.f, u.v)}
                   [] u.k \in {"yes", "no"} /\ s.create.awaiting -> {[NoArgs EXCEPT !.confirm = u.k]}
                   [] OTHER -> {}
        other == CASE u.k = "create" -> StartCreate(s, c)
                   [] u.k = "remove" -> StartRemoval(s, u.p) \cup StartRemoval(s, None)
                   [] u.k = "edit" -> StartEdit(s, u.p)
                   [] OTHER -> {}
    IN (UNION {Fill(s, c, u, args) : args \in calls}) \cup other \cup {Result(s, Reply("chat"))}

Tried(s, c, u) ==
    LET seen == IF u.k = "browse" \/ s.edit # None THEN s
                ELSE [s EXCEPT !.create = Reconcile(c, @)]
        tries == <<TryBrowse(s, u), TryEdit(s, u), TryAnswer(seen, c, u),
                   TrySummary(seen, c, u), TryRemoval(seen, u), TrySubmit(seen, c, u)>>
        hits == {i \in DOMAIN tries : tries[i] # {}}
    IN IF hits = {} THEN Model(seen, c, u)
       ELSE tries[CHOOSE i \in hits : \A j \in hits : i <= j]

(* The first turn of a visible chat clears the sessions of the thread *)
MutKeepsSessions == Here
MutKeepsLimit ==
    IF chat.fresh THEN [Here EXCEPT !.create = [NoDraft EXCEPT !.limit = create.limit],
                                    !.removal = NoRemoval, !.edit = None]
    ELSE Here
Prepared == IF chat.fresh
            THEN [Here EXCEPT !.create = NoDraft, !.removal = NoRemoval, !.edit = None]
            ELSE Here

Outcomes(u) == Tried(Prepared, Hear(chat, u), u)

Commit(u, x) ==
    /\ create' = x.s.create /\ removal' = x.s.removal /\ edit' = x.s.edit
    /\ live' = x.s.live /\ made' = x.s.made /\ stray' = x.s.stray
-----------------------------------------------------------------------------
Init == /\ create = NoDraft /\ removal = NoRemoval /\ edit = None
        /\ chat = NewChat
        /\ live = Properties
        /\ made = {} /\ stray = {}
        /\ faults = 0
        /\ patient = FALSE

(* The turn runs to its end but the client never sees the reply *)
LostReply(u) ==
    /\ ~patient /\ faults < MaxFaults
    /\ chat' = [Hear(chat, u) EXCEPT !.fresh = FALSE]
    /\ faults' = faults + 1

Turn(u) == \E x \in Outcomes(u) :
    /\ Commit(u, x)
    /\ \/ chat' = Say(Hear(chat, u), x.reply) /\ UNCHANGED faults
       \/ LostReply(u)
    /\ UNCHANGED patient

Restart ==
    /\ faults < MaxFaults
    /\ create' = NoDraft /\ removal' = NoRemoval /\ edit' = None
    /\ faults' = faults + 1
    /\ UNCHANGED <<chat, live, made, stray, patient>>

(* The owner reloads the page: the client starts a new visible chat *)
Refresh ==
    /\ ~chat.fresh
    /\ ~patient \/ made # {}
    /\ chat' = NewChat
    /\ made' = {} /\ stray' = {}
    /\ faults' = 0
    /\ patient' = FALSE
    /\ UNCHANGED <<create, removal, edit, live>>

(* What an owner who wants a listing says next *)
Wanted ==
    CASE chat.last \in Fields \/ chat.last = "cleared" ->
           [k |-> "say", v |-> CHOOSE n \in Numbers : TRUE]
      [] chat.last \in {"summary", "failed"} -> [k |-> "yes"]
      [] chat.last = "confirm" -> [k |-> "no"]
      [] OTHER -> [k |-> "create"]

SettleDown == /\ ~patient /\ patient' = TRUE
              /\ UNCHANGED <<create, removal, edit, chat, live, made, stray, faults>>

Says == IF ~patient THEN Utterances ELSE IF made = {} THEN {Wanted} ELSE {}

Next == \/ \E u \in Says : Turn(u)
        \/ ~patient /\ Restart
        \/ Refresh
        \/ SettleDown

Spec == Init /\ [][Next]_vars

Cooperate == patient /\ made = {} /\ Turn(Wanted)

(* Cooperate is enabled, and enabled with a create that succeeds: TLC is   *)
(* much faster with these than with ENABLED.                               *)
CanGoOn == /\ patient /\ made = {}
           /\ \E x \in Outcomes(Wanted) :
                  \/ x.s # Here
                  \/ Say(Hear(chat, Wanted), x.reply) # chat
CanSucceed == /\ patient /\ made = {}
              /\ \E x \in Outcomes(Wanted) : x.s.made # made
CanRemove == /\ patient /\ made = {}
             /\ \E x \in Outcomes(Wanted) : x.s.live # live

(* WF_vars(Cooperate), SF_vars(Cooperate /\ made' # made) and the same for *)
(* live: the client always sends the next line, and a create or a removal  *)
(* that is retried for ever succeeds in the end.                           *)
FairSpec == /\ Spec
            /\ <>[]CanGoOn => []<><<Cooperate>>_vars
            /\ []<>CanSucceed => []<><<Cooperate /\ made' # made>>_vars
            /\ []<>CanRemove => []<><<Cooperate /\ live' # live>>_vars
=============================================================================
