------------------------------- MODULE Expenses -------------------------------
(***************************************************************************)
(* One expense and its postings in the ledger.  Editing deletes the        *)
(* postings and posts again; deleting voids the expense and posts the      *)
(* reversal.  With transactions each is one step, without them each round  *)
(* trip is a step and requests interleave or fail in between.              *)
(***************************************************************************)
EXTENDS Naturals, FiniteSets

CONSTANTS
  Amounts,       \* totals an expense may have
  Slots,         \* requests that overlap
  MaxRequests    \* bound: requests served

ExpensesShape == MaxRequests \in Nat

VARIABLES
  supported, \* are transactions supported (utils/transaction.js)
  expense,   \* Expense: state and total
  posted,    \* [Amounts -> postings of that amount], sourceType expense
  reversed,  \* [Amounts -> reversals of that amount], sourceType adjustment
  request, served,
  torn       \* ghost: a request failed half-way or overlapped, and nothing has mended it

vars == <<supported, expense, posted, reversed, request, served, torn>>

Nothing == [a \in Amounts |-> 0]
Only(a) == [Nothing EXCEPT ![a] = 1]
Plus(f, g) == [a \in Amounts |-> f[a] + g[a]]
Idle == [pc |-> "idle", total |-> 0, read |-> Nothing, alone |-> TRUE]

Init ==
  /\ supported \in BOOLEAN
  /\ expense = [state |-> "none", total |-> 0]
  /\ posted = Nothing /\ reversed = Nothing
  /\ request = [s \in Slots |-> Idle] /\ served = 0 /\ torn = FALSE

TypeOK ==
  /\ supported \in BOOLEAN
  /\ expense \in [state : {"none", "live", "void"}, total : {0} \cup Amounts]
  /\ posted \in [Amounts -> Nat] /\ reversed \in [Amounts -> Nat]
  /\ request \in [Slots -> [pc : {"idle", "post", "save", "clear", "repost", "list",
                                  "reverse", "void"},
                            total : {0} \cup Amounts, read : [Amounts -> Nat],
                            alone : BOOLEAN]]
  /\ served \in 0..MaxRequests /\ torn \in BOOLEAN

Busy == {s \in Slots : request[s].pc # "idle"}
At(s, pc) == request[s].pc = pc
Go(s, r) == request' = [request EXCEPT ![s] = r]
Goto(s, pc) == Go(s, [request[s] EXCEPT !.pc = pc])
Serve(s) == At(s, "idle") /\ served < MaxRequests /\ served' = served + 1

\* A request that begins beside others disturbs them all.
Begin(s, pc, total) ==
  /\ ~supported /\ Serve(s)
  /\ request' = [z \in Slots |->
       IF z = s THEN [Idle EXCEPT !.pc = pc, !.total = total, !.alone = (Busy = {})]
       ELSE [request[z] EXCEPT !.alone = FALSE]]
  /\ torn' = (torn \/ Busy # {})

\* A whole workflow in one transaction.
Commit(s) == supported /\ Serve(s) /\ UNCHANGED <<request, torn>>

-----------------------------------------------------------------------------
\* createExpenseWorkflow
Create(s, total) ==
  /\ expense.state = "none"
  /\ expense' = [state |-> "live", total |-> total]
  /\ \/ Commit(s) /\ posted' = Only(total)
     \/ Begin(s, "post", total) /\ UNCHANGED posted
  /\ UNCHANGED reversed

\* updateExpenseWorkflow: what the form says is saved, and the ledger posted again.
Update(s, total) ==
  /\ expense.state = "live"
  /\ \/ Commit(s) /\ expense' = [expense EXCEPT !.total = total] /\ posted' = Only(total)
     \/ Begin(s, "save", total) /\ UNCHANGED <<expense, posted>>
  /\ UNCHANGED reversed
Save(s) ==
  /\ At(s, "save") /\ expense' = [expense EXCEPT !.total = request[s].total]
  /\ Goto(s, "clear") /\ UNCHANGED <<posted, reversed, served, torn>>
ClearedNever == posted
Cleared == Nothing
Clear(s) ==
  /\ At(s, "clear") /\ posted' = Cleared
  /\ Goto(s, "repost") /\ UNCHANGED <<expense, reversed, served, torn>>

\* createLedgerEntries.  An edit nobody disturbed mends what came before, if no reversal did.
Post(s) ==
  /\ At(s, "post") \/ At(s, "repost")
  /\ posted' = Plus(posted, Only(request[s].total))
  /\ torn' = (torn /\ ~(At(s, "repost") /\ request[s].alone /\ reversed = Nothing))
  /\ Go(s, Idle) /\ UNCHANGED <<expense, reversed, served>>

-----------------------------------------------------------------------------
\* voidExpenseWorkflow: what is posted is reversed, then the expense is voided.
Void(s) ==
  /\ expense.state = "live"
  /\ \/ /\ Commit(s) /\ reversed' = Plus(reversed, posted)
        /\ expense' = [expense EXCEPT !.state = "void"]
     \/ Begin(s, "list", 0) /\ UNCHANGED <<expense, reversed>>
  /\ UNCHANGED posted
List(s) ==
  /\ At(s, "list") /\ Go(s, [request[s] EXCEPT !.pc = "reverse", !.read = posted])
  /\ UNCHANGED <<expense, posted, reversed, served, torn>>
Reverse(s) ==
  /\ At(s, "reverse") /\ reversed' = Plus(reversed, request[s].read)
  /\ Goto(s, "void") /\ UNCHANGED <<expense, posted, served, torn>>
MarkVoid(s) ==
  /\ At(s, "void") /\ expense' = [expense EXCEPT !.state = "void"]
  /\ torn' = (torn /\ ~(request[s].alone /\ reversed = request[s].read))
  /\ Go(s, Idle) /\ UNCHANGED <<posted, reversed, served>>

\* Without a transaction a round trip that fails leaves the earlier ones in place.
Fail(s) ==
  /\ s \in Busy /\ torn' = TRUE
  /\ Go(s, Idle) /\ UNCHANGED <<expense, posted, reversed, served>>

Next ==
  /\ UNCHANGED supported
  /\ \E s \in Slots :
       \/ \E total \in Amounts : Create(s, total) \/ Update(s, total)
       \/ Void(s) \/ Save(s) \/ Clear(s) \/ Post(s) \/ List(s) \/ Reverse(s) \/ MarkVoid(s)
       \/ Fail(s)

Spec == Init /\ [][Next]_vars

-----------------------------------------------------------------------------
\* Once the requests are over the ledger shows a live expense once, with its total, and a
\* void one not at all (modules/expenses/service.js); without transactions from the first
\* edit or deletion on that neither failed nor met another.
ExpensesPosted ==
  Busy = {} /\ ~torn =>
    CASE expense.state = "none" -> posted = Nothing /\ reversed = Nothing
      [] expense.state = "live" -> posted = Only(expense.total) /\ reversed = Nothing
      [] expense.state = "void" -> posted = reversed
=============================================================================
