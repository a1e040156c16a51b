----------------------------- MODULE MCProtocols -----------------------------
(***************************************************************************)
(* A small instance of Protocols, without the states that would only       *)
(* repeat.                                                                 *)
(***************************************************************************)
EXTENDS Protocols, TLC

\* The protocols tell no slot from another.
Symmetry == Permutations(Requests)

MCDeviceOf == <<1, 2, 3, 1>>
MCOwnerOf == <<1, 1, 2>>
MCPolicies == {[limits |-> [snapshot |-> 2, fallback |-> 1], enforced |-> TRUE],
               [limits |-> [snapshot |-> -1, fallback |-> 0], enforced |-> FALSE]}
MCEvery == <<2, 1>>
MCNumberOf == [p |-> "one", prefixed |-> "one", spaced |-> "one", q |-> "two"]
MCFiles == {<<"p">>, <<"prefixed", "p", "p">>}
MCLengthOf == [CN |-> 2, INV |-> 3, ORD |-> 3, BILL |-> 4]

Line(gross, rate, hsn) == [gross |-> gross, rate |-> rate, hsn |-> hsn]
MCCarts == {<<Line(50, 5, "x"), Line(50, 18, "y"), Line(35, -1, "x")>>,
            <<Line(67, 5, "x"), Line(0, 5, "y"), Line(67, 5, "x")>>,
            <<Line(29, 5, "x"), Line(31, 18, "y")>>}
MCDiscounts == {[type |-> "flat", value |-> 10], [type |-> "percentage", value |-> 33],
                [type |-> "percentage", value |-> 100]}
\* Among what these lines, rates and discounts make the code compute.
MCUnder == {<<29, 60, 60>>, <<42, 40, 120>>}
Buyer(registered, at) == [registered |-> registered, at |-> at]
MCBuyers == {Buyer(TRUE, "B"), Buyer(FALSE, "B"), Buyer(FALSE, "unknown")}

\* Nothing is claimed of a misled mirror, and requests overlap while they enrol the
\* second mandate or serve the first.
MandateBound ==
  /\ ~misled
  /\ remote[2] = "none" \/ \E s \in Requests : task[s].pc \in {"idle", "mint", "enrolled"}
  /\ orphans = {} \/ \A s \in Requests : task[s].pc = "idle"

\* The payments of a business come in order, one is refunded, at most, and not after a death;
\* nothing is claimed of a period once it is blended, and one plan is changed.
PerkBound ==
  /\ paid'[3] # "refunded" /\ (paid'[1] = "refunded" => paid'[2] # "refunded")
  /\ paid'[1] = "open" => paid'[2] = "open"
  /\ blended' # {} => forfeited' = {} /\ lost' = {} /\ Cardinality(blended') = 1
  /\ lost # {} => \A p \in Payments : paid'[p] = "refunded" => paid[p] = "refunded"

\* Nothing is claimed of a team that was raced and crowded.
TeamBound == ~(raced /\ crowded)

\* One push is under way at a time, and is lost while nothing else is.
NoticeBound ==
  /\ Cardinality(sending') <= 1
  /\ unsent' # unsent => \A t \in Tasks : teller[t].pc = "idle"

\* One of the two sales is printed offline; one made online is the second.
PushBound == {kind[1], kind[2]} \cap {"none", "printed"} # {} /\ kind[1] # "web"

\* The vendor is paid only with a bill in the books; with two of them that is all there is.
TradeBound ==
  /\ onAccount + payable > 0 => Goods!BillsOf(paper) # {}
  /\ paper[1].kind = "bill" /\ paper[2].kind = "bill" => paper[3].state = "none"
  /\ paper[3].kind \in {"order", "invoice", "note"}

\* The first two requests may overlap.  The second business only subscribes; the first sets
\* up one mandate, and one plan is edited, when it matters.
AccessBound ==
  /\ (\A s \in Requests : using'[s].pc # "idle") => used' = 2
  /\ \A s \in Requests : using'[s].b = 2 => using'[s].kind = "apply"
  /\ ~sub'[2].autopay /\ (sub[1].autopay => sub'[1].autopay)
  /\ sub'[1].autopay => sub'[1].cancelAt = 0
  /\ offered' # offered =>
       /\ offered = [free |-> 0, pro |-> 0]
       /\ IF offered'.pro = 1 THEN sub[1].plan = "pro" ELSE cache.value = 0

\* Two lines, and only these, are given away; a free line comes with a percentage off.  The
\* business moves to B, or changes its prices, between two documents; a second invoice has
\* other lines, and the same discount if it can.
TaxBound ==
  /\ \A d \in TaxDocs : supplied'[d].state # "none" =>
       /\ supplied'[d].cart[1].gross = 29 <=> supplied'[d].discount.value = 100
       /\ supplied'[d].cart[2].gross = 0 => supplied'[d].discount.type = "percentage"
  /\ settings' # settings =>
       /\ supplied[1].state # "none" /\ supplied[1].under = settings /\ supplied[2].state = "none"
       /\ settings'.home = settings.home \/ settings' = [settings EXCEPT !.home = "B"]
  /\ supplied'[2].state # "none" /\ supplied'[2].kind = "invoice" =>
       /\ supplied'[2].cart # supplied'[1].cart
       /\ 100 \in {supplied'[1].discount.value, supplied'[2].discount.value}
            \/ supplied'[2].discount = supplied'[1].discount

MCInit == Init /\ (part = "tax" => settings.home # "B")
MCNext ==
  /\ Next
  /\ part = "mandate" => MandateBound'
  /\ part = "perks" => PerkBound
  /\ part = "team" => TeamBound'
  /\ part = "notices" => NoticeBound
  /\ part = "push" => PushBound'
  /\ part = "trade" => TradeBound'
  /\ part = "access" => AccessBound
  /\ part = "tax" => TaxBound

MCSpec == MCInit /\ [][MCNext]_vars
=============================================================================
