---------------------------- MODULE OrderCopilot ----------------------------
(***************************************************************************)
(* One chat of an investor (invest, claim) or a tenant (rent) with the     *)
(* copilot.  Each workflow collects a listing, and a token count for an    *)
(* investment, shows a summary and on a Yes opens the order in the wallet. *)
(* The preflights take every turn that belongs to a workflow; the language *)
(* model answers the others as its prompt tells it to.                     *)
(* A query names a listing by number or by a name that may be close to     *)
(* several; a summary keeps the name and forgets the number.               *)
(***************************************************************************)
EXTENDS Naturals, FiniteSets

CONSTANTS Listings,   \* listings, by number
          Names,      \* what a listing can be called
          NameOf,     \* [Listings -> Names]
          Close,      \* [Names -> SUBSET Listings]: listings of about that name
          Words,      \* a name that is close to no listing: any other sentence
          Supply,     \* tokens a listing may have for sale
          MaxFaults,  \* bound: restarts, lost replies and market changes per chat
          None, Bad   \* no value; a count with a decimal point

ASSUME OrderAssumption ==
    /\ Listings \subseteq Nat /\ IsFiniteSet(Listings)
    /\ Supply \in Nat /\ MaxFaults \in Nat /\ Words \in Names
    /\ Names \cap Listings = {}    \* a title is not a listing's number
    /\ None \notin Listings \cup Names \cup Nat \cup {Bad} /\ Bad \notin Nat
    /\ None \notin [w : {"invest", "claim", "rent"}, p : Listings, n : Nat \cup {None}]
    /\ NameOf \in [Listings -> Names \ {Words}]
    /\ Close \in [Names -> SUBSET Listings] /\ Close[Words] = {}
    /\ \A p \in Listings : p \in Close[NameOf[p]]

VARIABLES role,     \* "investor" or "tenant"
          session,  \* the session of each workflow
          said,     \* what the assistant said last
          shown,    \* per workflow, the last summary given and not declined
          opened,   \* the order the last turn opened in the wallet, or None
          tokens,   \* tokens each listing has for sale
          offered,  \* listings with rent to pay, and with yield to claim
          faults,   \* restarts, lost replies and market changes in this chat
          patient,  \* the workflow the user answers patiently, or None
          wish      \* the listing that user wants, and whether he asks by its number

vars == <<role, session, said, shown, opened, tokens, offered, faults, patient, wish>>

Workflows == {"invest", "claim", "rent"}
Flows == IF role = "tenant" THEN {"rent"} ELSE {"invest", "claim"}
Counts == 1..Supply
Queries == Listings \cup Names
Investable == {p \in Listings : tokens[p] > 0}
Offered(w) == IF w = "invest" THEN Investable ELSE offered[w]

Utterances ==
         [k : {"yes", "no", "look", "aside"}]
    \cup [k : {"say"}, q : Queries]
    \cup [k : {"count"}, n : Counts \cup {Bad}]
    \cup IF role = "tenant"
         THEN [k : {"rent"}, q : Queries \cup {None}] \cup [k : {"button"}]
         ELSE [k : {"invest"}, q : Queries \cup {None}, n : Counts \cup {None, Bad}]
              \cup [k : {"claim"}, q : Queries \cup {None}]

(* The listings a query may mean: by number, by its exact name when only   *)
(* one has it, else all that are about as close to it.                     *)
Candidates(q, items) ==
    LET exact == {p \in items : NameOf[p] = q}
    IN IF q \in Listings THEN {q} \cap items
       ELSE IF Cardinality(exact) = 1 THEN exact
       ELSE Close[q] \cap items
Only(S) == CHOOSE p \in S : TRUE

Order(w, p, n) == [w |-> w, p |-> p, n |-> n]
Ask(w) == [k |-> "ask", w |-> w]
Which(w) == [k |-> "which", w |-> w]    \* a query that means no listing, or several
Line(kind) == [k |-> kind]
-----------------------------------------------------------------------------
NoSession == [open |-> FALSE, done |-> FALSE, asks |-> FALSE, name |-> None,
              amount |-> None, next |-> None, pid |-> None, among |-> {}]
Collecting(name, n, next, p) ==
    [NoSession EXCEPT !.open = TRUE, !.name = name, !.amount = n, !.next = next, !.pid = p]
Awaiting(name, n, p) == [Collecting(name, n, None, p) EXCEPT !.asks = TRUE]
Submitted(name, n, p) ==
    [NoSession EXCEPT !.done = TRUE, !.name = name, !.amount = n, !.pid = p]
Started == Collecting(None, None, "name", None)

(* A finished rent payment keeps its workflow active, the others end *)
Active(w, x) == x.open \/ (w = "rent" /\ x.done)

Result(s, line) == [s |-> s, said |-> line, order |-> None]
Opens(s, o) == [s |-> s, said |-> Line("ordered"), order |-> o]
Put(s, w, x) == [s EXCEPT ![w] = x]
Cancel(s, w) == {Result(Put(s, w, NoSession), [k |-> "cancelled", w |-> w])}
Confirm(s, w, name, p, n) ==
    {Result(Put(s, w, Awaiting(name, n, p)), [k |-> "summary", w |-> w, o |-> Order(w, p, n)])}
Answered(s, w) == [s EXCEPT ![w].asks = FALSE]   \* before the Yes is acted on

Query(u) == CASE u.k \in {"say", "invest", "claim", "rent"} -> u.q
              [] u.k \in {"yes", "no"} -> Words
              [] OTHER -> None
Count(u) == IF u.k \in {"count", "invest"} THEN u.n ELSE None
-----------------------------------------------------------------------------
(* investments *)
MutKeepsCount(s, name, p) ==
    {Result(Put(s, "invest", Collecting(name, Bad, "count", p)), Line("count"))}
RejectCount(s, name, p) ==
    {Result(Put(s, "invest", Collecting(name, None, "count", p)), Line("count"))}

InSupply(n, p) == n = None \/ n <= tokens[p]

SubmitInvestment(s, p, n) ==
    LET funded == Opens(Put(s, "invest", Submitted(NameOf[p], n, p)), Order("invest", p, n))
        short == Result(Put(s, "invest", Collecting(NameOf[p], n, "count", p)), Line("chat"))
        unknown == Result(s, Line("chat"))
    IN {funded, short, unknown}

MutAnyListing(x, p, n) == n
KeptCount(x, p, n) == IF x.pid \in {None, p} THEN n ELSE None

FillInvestment(s, q, n, submit) ==
    LET x == s["invest"]
        name == IF q # None THEN q ELSE x.name
        said_n == IF q # None \/ n # None THEN n ELSE x.amount
        items == IF x.among = {} THEN Investable ELSE Investable \cap x.among
        found == IF name = None THEN {} ELSE Candidates(name, items)
        p == Only(found)
        amount == KeptCount(x, p, said_n)
        unresolved == [Collecting(name, said_n, "name", None) EXCEPT
                          !.among = IF Cardinality(found) > 1
                                    THEN Candidates(name, Investable) ELSE {}]
    IN IF n = Bad THEN RejectCount(s, x.name, x.pid)
       ELSE IF name = None
            THEN {Result(Put(s, "invest", Collecting(None, said_n, "name", None)), Ask("invest"))}
       ELSE IF Cardinality(found) # 1 THEN {Result(Put(s, "invest", unresolved), Which("invest"))}
       ELSE IF ~InSupply(amount, p) THEN RejectCount(s, NameOf[p], p)
       ELSE IF submit THEN IF amount = None THEN {Result(s, Line("chat"))}
                           ELSE SubmitInvestment(s, p, amount)
       ELSE IF amount = None
            THEN {Result(Put(s, "invest", Collecting(NameOf[p], None, "count", p)), Line("count"))}
       ELSE Confirm(s, "invest", NameOf[p], p, amount)

(* The line is an answer to a question for a listing: the prompt of the    *)
(* claim workflow has the words of the prompt of the invest workflow.      *)
FollowsUp(u) == said.k \in {"ask", "catalog"} /\ u.k \in {"say", "yes", "no"}

InvestTurn(s, u) ==
    LET x == s["invest"]
    IN IF x.asks
       THEN CASE u.k = "yes" -> FillInvestment(Answered(s, "invest"), x.name, x.amount, TRUE)
              [] u.k = "no" -> Cancel(s, "invest")
              [] Count(u) = Bad -> RejectCount(s, x.name, x.pid)
              [] OTHER -> Confirm(s, "invest", x.name, x.pid, x.amount)
       ELSE IF u.k \in {"aside", "claim"} THEN {}
       ELSE IF x.open THEN FillInvestment(s, Query(u), Count(u), FALSE)
       ELSE IF ~(u.k = "invest" \/ FollowsUp(u)) THEN {}
       ELSE IF Query(u) = None THEN {Result(Put(s, "invest", Started), Ask("invest"))}
       ELSE FillInvestment(Put(s, "invest", Started), Query(u), Count(u), FALSE)
-----------------------------------------------------------------------------
(* yield claims and rent payments: only the listing is collected *)
ClaimRewards(s, p) ==
    {Opens(Put(s, "claim", Submitted(NameOf[p], None, p)), Order("claim", p, None)),
     Result(s, Line("chat"))}

PayRent(s, p) ==
    LET after == Put(s, "rent", Submitted(NameOf[p], None, p))
        short == Result(after, Line("chat"))    \* too little ETH, and it counts as submitted
    IN {Opens(after, Order("rent", p, None)), short, Result(s, Line("chat"))}

FillListing(s, w, name, submit) ==
    LET found == Candidates(name, offered[w])
    IN IF Cardinality(found) # 1 THEN {Result(s, Which(w))}
       ELSE IF submit
            THEN IF w = "claim" THEN ClaimRewards(s, Only(found)) ELSE PayRent(s, Only(found))
       ELSE Confirm(s, w, NameOf[Only(found)], Only(found), None)

(* Anything but a Yes or a No shows the summary again *)
Replay(s, w) ==
    LET found == Candidates(s[w].name, offered[w])
    IN IF Cardinality(found) # 1 THEN {Result(s, Which(w))}
       ELSE LET p == Only(found)
                pid == IF w = "rent" THEN s[w].pid ELSE p
            IN {Result(Put(s, w, Awaiting(s[w].name, None, pid)),
                       [k |-> "summary", w |-> w, o |-> Order(w, p, None)])}

AnswerSummary(s, w, u) ==
    CASE u.k = "yes" -> FillListing(Answered(s, w), w, s[w].name, TRUE)
      [] u.k = "no" -> Cancel(s, w)
      [] OTHER -> Replay(s, w)

(* What an active session takes the line for; a bare number is a listing's *)
Hint(w, u) ==
    CASE w = "claim" /\ u.k \in {"yes", "no"} -> None
      [] u.k = "count" -> IF u.n \in Listings THEN u.n ELSE Words
      [] OTHER -> Query(u)
Taken(x, hint) == CASE hint # None -> hint
                    [] x.name = None -> Words
                    [] OTHER -> x.name

ClaimTurn(s, u) ==
    LET x == s["claim"]
        rows == offered["claim"]
    IN IF x.asks THEN AnswerSummary(s, "claim", u)
       ELSE IF u.k = "aside" THEN {}
       ELSE IF x.open THEN FillListing(s, "claim", Taken(x, Hint("claim", u)), FALSE)
       ELSE IF u.k # "claim" \/ rows = {} THEN {}
       ELSE IF u.q # None THEN FillListing(Put(s, "claim", Started), "claim", u.q, FALSE)
       ELSE IF Cardinality(rows) = 1
            THEN FillListing(Put(s, "claim", Started), "claim", NameOf[Only(rows)], FALSE)
       ELSE {Result(Put(s, "claim", Started), Ask("claim"))}

RentTurn(s, u) ==
    LET x == s["rent"]
        start == {Result(Put(s, "rent", Started), Ask("rent"))}
    IN IF x.asks THEN AnswerSummary(s, "rent", u)
       ELSE IF u.k = "aside" THEN {}
       ELSE IF u.k = "button" THEN start
       ELSE IF Active("rent", x) THEN FillListing(s, "rent", Taken(x, Hint("rent", u)), FALSE)
       ELSE IF u.k # "rent" THEN {}
       ELSE IF u.q = None THEN start
       ELSE FillListing(Put(s, "rent", Started), "rent", u.q, FALSE)
-----------------------------------------------------------------------------
Abort(s, w) == IF Active(w, s[w]) THEN Put(s, w, NoSession) ELSE s

(* Looking around drops an unfinished investment or payment, also one that *)
(* waits for its Yes; a claim stays.                                       *)
Look(s) == LET t == IF role = "tenant" THEN Abort(s, "rent") ELSE Abort(s, "invest")
           IN {Result(t, Line("catalog")), Result(t, Line("chat"))}

(* Any other shortcut drops what a turn of the workflow did not answer *)
MutAsideOnly(s, w, u) == IF ~s[w].asks /\ u.k = "aside" THEN Abort(s, w) ELSE s
AbortIdle(s, w, u) ==
    IF ~s[w].asks /\ (u.k = "aside" \/ (w = "invest" /\ u.k = "claim")) THEN Abort(s, w) ELSE s

(* A Yes or No to a summary whose session is gone: the model is told to    *)
(* pass it on, and the invest tool takes it for the name of a listing.     *)
Model(s, u) ==
    {Result(s, Line("chat"))} \cup
    IF u.k \in {"yes", "no"} /\ said.k = "summary" /\ said.w = "invest"
    THEN FillInvestment(s, Words, None, FALSE) ELSE {}

NoSessions == [w \in Workflows |-> NoSession]
MutKeepsSessions == session
Prepared == IF said.k = "hello" THEN NoSessions ELSE session

Outcomes(u) ==
    LET s == Prepared
        invest == InvestTurn(s, u)
        t == AbortIdle(s, "invest", u)
        claim == ClaimTurn(t, u)
        rent == RentTurn(s, u)
    IN IF u.k = "look" THEN Look(s)
       ELSE IF role = "tenant"
            THEN IF rent # {} THEN rent ELSE Model(AbortIdle(s, "rent", u), u)
       ELSE IF invest # {} THEN invest
       ELSE IF claim # {} THEN claim
       ELSE Model(AbortIdle(t, "claim", u), u)

Speak(line) ==
    said' = IF line.k = "summary" THEN [k |-> "summary", w |-> line.w, p |-> line.o.p]
            ELSE IF line.k \in {"cancelled", "ordered"} THEN Line("chat") ELSE line
Show(line) ==
    shown' = IF line.k = "summary" THEN [shown EXCEPT ![line.w] = line.o]
             ELSE IF line.k = "cancelled" THEN [shown EXCEPT ![line.w] = None]
             ELSE shown
-----------------------------------------------------------------------------
(* Bound: a chat finds every listing offered *)
Fresh == [Listings -> {Supply}]
AllDue == [w \in {"claim", "rent"} |-> Listings]

Init == /\ role \in {"investor", "tenant"}
        /\ session = NoSessions
        /\ said = Line("hello")
        /\ shown = [w \in Workflows |-> None]
        /\ opened = None
        /\ tokens \in Fresh /\ offered = AllDue
        /\ faults = 0
        /\ patient = None /\ wish = None

Turn(u) == \E x \in Outcomes(u) :
    /\ session' = x.s
    /\ opened' = x.order
    /\ Speak(x.said) /\ Show(x.said)
    /\ UNCHANGED <<role, tokens, offered, faults, patient, wish>>

(* The reply, and with it the order, never reaches the client *)
LostReply(u) == \E x \in Outcomes(u) :
    /\ faults < MaxFaults
    /\ session' = x.s
    /\ said' = IF said.k = "hello" THEN Line("chat") ELSE said
    /\ Show(x.said)
    /\ opened' = None
    /\ faults' = faults + 1
    /\ UNCHANGED <<role, tokens, offered, patient, wish>>

Restart ==
    /\ faults < MaxFaults
    /\ session' = NoSessions
    /\ faults' = faults + 1
    /\ UNCHANGED <<role, said, shown, opened, tokens, offered, patient, wish>>

Ordered(w, p) == opened # None /\ opened.w = w /\ opened.p = p
Served == patient # None /\ Ordered(patient, wish.p)
Refresh ==
    /\ said.k # "hello"
    /\ patient = None \/ Served
    /\ said' = Line("hello")
    /\ shown' = [w \in Workflows |-> None]
    /\ opened' = None
    /\ faults' = 0
    /\ patient' = None /\ wish' = None
    /\ tokens' \in Fresh /\ offered' = AllDue
    /\ UNCHANGED <<role, session>>

(* Others buy or return tokens; rent falls due or is paid, yield accrues   *)
(* or is claimed elsewhere, a listing is archived or offered again.        *)
Trade == \E p \in Listings, n \in 0..Supply :
    /\ tokens' = [tokens EXCEPT ![p] = n] /\ n # tokens[p]
    /\ UNCHANGED offered
Relist == \E w \in {"claim", "rent"}, p \in Listings :
    /\ w \in Flows
    /\ offered' = [offered EXCEPT ![w] = IF p \in @ THEN @ \ {p} ELSE @ \cup {p}]
    /\ UNCHANGED tokens
Market ==
    /\ faults < MaxFaults
    /\ (role = "investor" /\ Trade) \/ Relist
    /\ faults' = faults + 1
    /\ UNCHANGED <<role, session, said, shown, opened, patient, wish>>

SettleDown(w) == \E p \in Offered(w), named \in BOOLEAN :
    /\ patient = None
    /\ patient' = w /\ wish' = [p |-> p, named |-> named] /\ opened' = None
    /\ UNCHANGED <<role, session, said, shown, tokens, offered, faults>>

(* What a user who wants an order of workflow `patient` says next: he      *)
(* answers what his workflow asks, refuses every other summary, and else   *)
(* asks for the order again, with the listing's number or without.         *)
Wanted ==
    LET q == IF wish.named THEN wish.p ELSE None
        mine == said.w = patient
    IN CASE said.k = "summary" -> [k |-> IF mine /\ said.p = wish.p THEN "yes" ELSE "no"]
         [] said.k \in {"ask", "which"} /\ mine -> [k |-> "say", q |-> wish.p]
         [] said.k = "count" /\ patient = "invest" -> [k |-> "count", n |-> 1]
         [] patient = "invest" -> [k |-> "invest", q |-> q, n |-> None]
         [] OTHER -> [k |-> patient, q |-> q]

Cooperate == patient # None /\ ~Served /\ Turn(Wanted)

Next == \/ patient = None /\ \E u \in Utterances : Turn(u) \/ LostReply(u)
        \/ patient = None /\ (Restart \/ Market)
        \/ Refresh
        \/ \E w \in Flows : SettleDown(w)
        \/ Cooperate

Spec == Init /\ [][Next]_vars

Waits == patient # None /\ ~Served
CanSucceed == Waits /\ \E x \in Outcomes(Wanted) : x.order # None

(* The client sends the next line, and an order that is tried again and    *)
(* again is funded and found payable in the end.                           *)
FairSpec == /\ Spec
            /\ <>[]Waits => []<><<Cooperate>>_vars
            /\ []<>CanSucceed => []<><<Cooperate /\ opened' # None>>_vars
-----------------------------------------------------------------------------
Orders == [w : Workflows, p : Listings, n : Counts \cup {None}]

(* Sessions, replies and the market hold values of their types. *)
TypeOK ==
    /\ role \in {"investor", "tenant"}
    /\ session \in [Workflows -> [open : BOOLEAN, done : BOOLEAN, asks : BOOLEAN,
           name : Queries \cup {None}, amount : Counts \cup {None},
           next : {"name", "count", None}, pid : Listings \cup {None},
           among : SUBSET Listings]]
    /\ shown \in [Workflows -> Orders \cup {None}]
    /\ opened \in Orders \cup {None}
    /\ tokens \in [Listings -> 0..Supply]
    /\ offered \in [{"claim", "rent"} -> SUBSET Listings]
    /\ faults \in 0..MaxFaults
    /\ patient \in Workflows \cup {None}
    /\ wish \in [p : Listings, named : BOOLEAN] \cup {None}

NewOrder(w) == opened' # None /\ opened' # opened /\ opened'.w = w

(* An investment opens in the wallet exactly as the last summary that was  *)
(* not declined showed it, listing and count, also when the market changed *)
(* in between and the name now means another listing.                      *)
InvestedAsShown == [][NewOrder("invest") => opened' = shown["invest"]]_vars

(* A claim or a rent payment opens for the listing its last summary        *)
(* showed, as long as that listing is still offered and was found under    *)
(* its own name: the session keeps the name, and where a similar listing   *)
(* stood in for a missing one it is the name that decides again at the Yes. *)
PaidAsShown ==
    [][\A w \in {"claim", "rent"} : NewOrder(w) =>
           \/ opened' = shown[w]
           \/ /\ shown[w] # None
              /\ shown[w].p \notin offered[w] \/ NameOf[shown[w].p] # session[w].name]_vars

(* A user who answers what his workflow asks gets the order for the        *)
(* listing he wants, from whatever state the chat and the sessions of all  *)
(* the workflows have come to, also when the invest workflow takes his     *)
(* answer to the claim workflow's question.  Not so when another listing   *)
(* on offer has the same name: the summary forgets the number.             *)
OwnName == \A i \in Offered(patient) : NameOf[i] = NameOf[wish.p] => i = wish.p
PatienceServed == (patient # None /\ OwnName) ~> Served

=============================================================================
