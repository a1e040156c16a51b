------------------------------ MODULE Numbering ------------------------------
(***************************************************************************)
(* The numbers on a business's papers: the series of each document type    *)
(* and financial year, orders in a series that never starts again, and the *)
(* series of the devices that print invoices offline.  What is looked at   *)
(* is the number itself: how it is formatted, how it is read back, and     *)
(* what becomes of it when the prefix or the year changes before it is     *)
(* pushed.  Each request is one step: SyncPush interleaves them, and has   *)
(* the unique index that would hide here a number handed out twice.        *)
(***************************************************************************)
EXTENDS Naturals, FiniteSets

CONSTANTS
  Devices,     \* indexes of the devices, 1 the primary one
  Years,       \* financial years: 1..n
  Prefixes,    \* prefixes the invoices may be given
  LengthOf,    \* [Prefixes \cup {"CN", "ORD"} -> characters]
  Begin,       \* positions the series may have reached
  MaxNumbers   \* bound: numbers issued or printed, and changes of prefix

VARIABLES
  prefix,    \* Business.invoicePrefix
  year,      \* the financial year of today
  sequence,  \* NumberSequence: [series -> position]
  counters,  \* DeviceSeries.counters of the devices but the first: [device, year -> position]
  local,     \* what each device was told, and how far it has printed
  printed,   \* invoices printed offline and not pushed yet
  papers,    \* documents written, with their number
  refused,   \* pushed invoices that were refused, and the prefix of that day
  count

vars == <<prefix, year, sequence, counters, local, printed, papers, refused, count>>

GST_DOCUMENT_NUMBER_MAX_LENGTH == 16
MAX_DOCUMENT_PREFIX_LENGTH == GST_DOCUMENT_NUMBER_MAX_LENGTH - 7 - 4 - 2
Types == {"invoice", "credit_note", "order"}

\* What is assumed of the constants.
NumberingShape ==
  /\ 1 \in Devices /\ Devices \subseteq Nat \ {0}
  /\ 1 \in Years /\ Years \subseteq Nat \ {0}
  /\ Begin \subseteq Nat /\ MaxNumbers \in Nat
  /\ LengthOf \in [Prefixes \cup {"CN", "ORD"} -> Nat]

\* The prefix of a type, and the scope of its series: orders never start again.
PrefixFor(type) ==
  CASE type = "invoice" -> prefix [] type = "credit_note" -> "CN" [] type = "order" -> "ORD"
ScopeOf(type, y) == IF type = "order" THEN 0 ELSE y

\* A number is what is printed: the long form carries the whole financial year, the compact
\* one four digits of it and the segment of the device.
Form(type, p, y, segment, n) ==
  [prefix |-> p, year |-> ScopeOf(type, y), segment |-> segment, sequence |-> n,
   form |-> CASE type = "order" -> "order"
              [] type # "order" /\ segment = 0 -> "long"
              [] OTHER -> "compact"]
Digits(n) == IF n < 10000 THEN 4 ELSE 5
\* Both forms spend nine characters on year, segment and dashes.
LengthOfNumber(number) == LengthOf[number.prefix] + 9 + Digits(number.sequence)
TooLong(number) ==
  number.form # "order" /\ LengthOfNumber(number) > GST_DOCUMENT_NUMBER_MAX_LENGTH

\* formatDeviceDocumentNumber: the primary device prints the shared series.
Unsegmented(d) == 0
Segment(d) == IF d = 1 THEN 0 ELSE d
FormatFor(d, p, y, n) == Form("invoice", p, y, Segment(d), n)

\* parseDeviceDocumentNumber reads four digits, no more.
Readable(number) == Digits(number.sequence) = 4

Init ==
  /\ prefix \in Prefixes /\ year = 1
  /\ \E n \in Begin :
       /\ sequence = [type \in Types |-> [y \in Years \cup {0} |-> IF y < 2 THEN n ELSE 0]]
       /\ counters = [d \in Devices |-> [y \in Years |-> IF d # 1 /\ y = 1 THEN n ELSE 0]]
  /\ local = [d \in Devices |-> [year |-> 0, prefix |-> prefix, position |-> 0]]
  /\ printed = {} /\ papers = {} /\ refused = {} /\ count = 0

Sale(d, number, y) == [id |-> count + 1, device |-> d, number |-> number, year |-> y]
Paper(id, type, y, d, number) ==
  [id |-> id, type |-> type, year |-> y, device |-> d, number |-> number]

TypeOK ==
  /\ prefix \in Prefixes /\ year \in Years
  /\ sequence \in [Types -> [Years \cup {0} -> Nat]]
  /\ counters \in [Devices -> [Years -> Nat]]
  /\ local \in [Devices -> [year : Years \cup {0}, prefix : Prefixes, position : Nat]]
  /\ \A x \in printed \cup {r.sale : r \in refused} : x.device \in Devices /\ x.year \in Years
  /\ \A x \in papers : x.type \in Types /\ x.device \in Devices /\ x.year \in Years
  /\ count \in 0..MaxNumbers

Counted == count < MaxNumbers /\ count' = count + 1

-----------------------------------------------------------------------------
\* nextDocumentNumber and nextOrderNumber: the position is taken first, and a number that is
\* too long undoes the document and, in a transaction, the position too.
Issue(type, y) ==
  /\ y <= year /\ Counted
  /\ LET n == sequence[type][ScopeOf(type, y)] + 1
         number == Form(type, PrefixFor(type), y, 0, n)
         taken == [sequence EXCEPT ![type][ScopeOf(type, y)] = n]
     IN IF TooLong(number) THEN sequence' \in {sequence, taken} /\ UNCHANGED papers
        ELSE sequence' = taken /\ papers' = papers \cup {Paper(count + 1, type, y, 1, number)}
  /\ UNCHANGED <<prefix, year, counters, local, printed, refused>>

\* updateSettings refuses a prefix that is too long; a business may have one from before.
ChangePrefix(p) ==
  /\ p # prefix /\ LengthOf[p] <= MAX_DOCUMENT_PREFIX_LENGTH /\ Counted /\ prefix' = p
  /\ UNCHANGED <<year, sequence, counters, local, printed, papers, refused>>

NewYear ==
  /\ year + 1 \in Years /\ year' = year + 1
  /\ UNCHANGED <<prefix, sequence, counters, local, printed, papers, refused, count>>

\* currentSequence and advance: the primary device prints the shared series.
Current(d, y) == IF d = 1 THEN sequence["invoice"][y] ELSE counters[d][y]
Beyond(current, n) == IF n > current THEN n ELSE current
Advance(d, y, n) ==
  IF d = 1 THEN /\ sequence' = [sequence EXCEPT !["invoice"][y] = Beyond(@, n)]
                /\ UNCHANGED counters
  ELSE /\ counters' = [counters EXCEPT ![d][y] = Beyond(@, n)]
       /\ UNCHANGED sequence

\* registerDevice tells the device its series; the device goes on from what it has printed.
Register(d) ==
  /\ local' = [local EXCEPT ![d] =
                 [year |-> year, prefix |-> prefix,
                  position |-> IF @.year = year THEN Beyond(@.position, Current(d, year))
                               ELSE Current(d, year)]]
  /\ local' # local
  /\ UNCHANGED <<prefix, year, sequence, counters, printed, papers, refused, count>>

\* The device, offline: the next number of the series it was told, in the year it was told.
PrintNumber(d) ==
  /\ local[d].year = year /\ Counted
  /\ LET n == local[d].position + 1
         number == FormatFor(d, local[d].prefix, year, n)
     IN /\ ~TooLong(number)
        /\ printed' = printed \cup {Sale(d, number, year)}
        /\ local' = [local EXCEPT ![d].position = n]
  /\ UNCHANGED <<prefix, year, sequence, counters, papers, refused>>

\* guardPushedDocumentNumber and assertDeviceDocumentNumber: the number is read, formatted
\* again from the device, the prefix of today and the year of the sale, and compared.
Fits(sale) ==
  /\ Readable(sale.number)
  /\ sale.number = FormatFor(sale.device, prefix, sale.year, sale.number.sequence)
  /\ sale.number.sequence > Current(sale.device, sale.year)
Push(sale) ==
  /\ sale \in printed /\ printed' = printed \ {sale}
  /\ IF Fits(sale)
     THEN /\ papers' = papers \cup
                          {Paper(sale.id, "invoice", sale.year, sale.device, sale.number)}
          /\ Advance(sale.device, sale.year, sale.number.sequence)
          /\ UNCHANGED refused
     ELSE /\ refused' = refused \cup {[sale |-> sale, prefix |-> prefix]}
          /\ UNCHANGED <<papers, sequence, counters>>
  /\ UNCHANGED <<prefix, year, local, count>>

Next ==
  \/ \E type \in Types, y \in Years : Issue(type, y)
  \/ \E p \in Prefixes : ChangePrefix(p)
  \/ NewYear
  \/ \E d \in Devices : Register(d) \/ PrintNumber(d)
  \/ \E sale \in printed : Push(sale)

Spec == Init /\ [][Next]_vars

-----------------------------------------------------------------------------
\* Two papers of a business carry one number only when the invoices were given the prefix of
\* the credit notes (documentPrefixFor); a series never hands a position out twice, whatever
\* its prefix was, nor in two forms; and no tax document's number is longer than allowed.
NumbersUnique ==
  /\ \A x, y \in papers :
       /\ x.number = y.number => x = y \/ (x.type # y.type /\ x.number.prefix = "CN")
       /\ x.type = y.type /\ x.device = y.device /\ x.number.sequence = y.number.sequence
            /\ ScopeOf(x.type, x.year) = ScopeOf(y.type, y.year) => x = y
  /\ \A x \in papers : x.type # "order" =>
       LengthOfNumber(x.number) <= GST_DOCUMENT_NUMBER_MAX_LENGTH

\* An invoice in a customer's hands is refused (assertDeviceDocumentNumber) only if the prefix
\* changed after the device was told, its number has outgrown four digits, or the series was
\* moved past it: by a later sale of the device or, for the primary one, by another document.
RefusedOnlyForReason ==
  \A r \in refused :
    \/ r.sale.number.prefix # r.prefix
    \/ ~Readable(r.sale.number)
    \/ \E x \in papers :
         /\ x.type = "invoice" /\ x.device = r.sale.device /\ x.year = r.sale.year
         /\ x.number.sequence >= r.sale.number.sequence

NumbersExact == NumbersUnique /\ RefusedOnlyForReason
=============================================================================
