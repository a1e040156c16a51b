------------------------------- MODULE Records -------------------------------
(***************************************************************************)
(* The customer book: edits by form, offline edits pushed with the version *)
(* they were based on, deletions, and spreadsheet imports.  A phone is     *)
(* what was typed: a unique index compares it as it is, the forms by its   *)
(* last ten digits, found only in a phone that ends with them unspaced.    *)
(***************************************************************************)
EXTENDS Naturals, Sequences, FiniteSets

CONSTANTS
  Docs,         \* customers, created in this order: 1..n
  Phones,       \* as they are written
  NumberOf,     \* [Phones -> the last ten digits]
  Compact,      \* the phones that end with these digits unspaced
  Files,        \* spreadsheets: the phone of each line
  Slots,        \* requests that overlap
  MaxRequests   \* bound: requests served

RecordsShape ==
  /\ MaxRequests \in Nat /\ Files \subseteq Seq(Phones)
  /\ Docs \subseteq Nat \ {0} /\ Phones # {} /\ Compact \subseteq Phones /\ DOMAIN NumberOf = Phones

VARIABLES
  doc,        \* Customer documents: state, phone, version, and the last edit
  device,     \* [Docs -> the version and the edit the offline device knows]
  request, served,
  imported,   \* ghost: edits made by an import
  meanwhile,  \* ghost: edits made to what a pushed edit had been checked against
  raced,      \* ghost: phones written while another request had looked for their number
  clobbered,  \* ghost: edits a pushed edit overwrote, though its device had not seen them
  misreported \* ghost: an import that ran alone did not account for every line

vars == <<doc, device, request, served, imported, meanwhile, raced, clobbered, misreported>>

AnyPhone == CHOOSE p \in Phones : TRUE
NoDoc == [state |-> "none", phone |-> AnyPhone, version |-> 0, edit |-> 0]
Unknown == [version |-> 0, edit |-> 0]
Idle == [pc |-> "idle", edit |-> 0, doc |-> 0, phone |-> AnyPhone, base |-> Unknown, file |-> <<>>,
         update |-> FALSE, creates |-> {}, updates |-> {}, created |-> 0, alone |-> TRUE]
Live == {d \in Docs : doc[d].state = "live"}
Holder(p) == {d \in Live : doc[d].phone = p}

New(p, edit) == [state |-> "live", phone |-> p, version |-> 1, edit |-> edit]

\* A customer may be in the book already.
Init ==
  /\ \E p \in Phones : doc \in {[d \in Docs |-> NoDoc],
                              [d \in Docs |-> IF d = 1 THEN New(p, 0) ELSE NoDoc]}
  /\ device = [d \in Docs |-> Unknown]
  /\ request = [s \in Slots |-> Idle] /\ served = 0
  /\ imported = {} /\ meanwhile = {} /\ raced = {} /\ clobbered = {} /\ misreported = FALSE

TypeOK ==
  /\ doc \in [Docs -> [state : {"none", "live", "deleted"}, phone : Phones,
                       version : Nat, edit : 0..MaxRequests]]
  /\ device \in [Docs -> [version : Nat, edit : 0..MaxRequests]]
  /\ \A s \in Slots :
       /\ request[s].pc \in {"idle", "create", "check", "look", "update", "insert", "overwrite"}
       /\ request[s].creates \subseteq Phones /\ request[s].updates \subseteq Docs \X Phones
  /\ served \in 0..MaxRequests
  /\ imported \subseteq 1..MaxRequests /\ meanwhile \subseteq 1..MaxRequests
  /\ raced \subseteq Phones /\ clobbered \subseteq 0..MaxRequests
  /\ misreported \in BOOLEAN

Busy == {s \in Slots : request[s].pc # "idle"}
At(s, pc) == request[s].pc = pc
Go(s, r) == request' = [request EXCEPT ![s] = r]
Serve(s, r) ==
  /\ At(s, "idle") /\ served < MaxRequests /\ served' = served + 1
  /\ request' = [z \in Slots |->
       IF z = s THEN [r EXCEPT !.edit = served + 1, !.alone = (Busy = {})]
       ELSE [request[z] EXCEPT !.alone = FALSE]]
ghosts == <<imported, meanwhile, raced, clobbered, misreported>>
Fresh(d) == doc[d].state = "none" /\ \A c \in Docs : doc[c].state = "none" => d <= c

\* syncable: a write counts the version up, whichever way it is made but in bulk.
Written(d, p, edit) == [doc[d] EXCEPT !.phone = p, !.version = @ + 1, !.edit = edit]

\* assertPhoneAvailable: the phone as it is, then a phone that ends with its number.
Same(p, q) == NumberOf[p] = NumberOf[q]
Taken(p, d) ==
  \E c \in Live \ {d} : doc[c].phone = p \/ (Same(doc[c].phone, p) /\ doc[c].phone \in Compact)

Looked(z) == request[z].pc \in {"create", "update"}
Races(s, phones) ==
  raced \cup {p \in phones : \E z \in Slots \ {s} : Looked(z) /\ Same(request[z].phone, p)}

-----------------------------------------------------------------------------
\* createCustomer: the phone is looked for, and the unique index has the last word.
AskCreate(s, p) ==
  /\ ~Taken(p, 0)
  /\ Serve(s, [Idle EXCEPT !.pc = "create", !.phone = p])
  /\ UNCHANGED <<doc, device, ghosts>>
Create(s) ==
  /\ At(s, "create")
  /\ LET p == request[s].phone
     IN IF Holder(p) # {} THEN UNCHANGED <<doc, raced>>
        ELSE /\ raced' = Races(s, {p})
             /\ \E d \in Docs : Fresh(d) /\ doc' = [doc EXCEPT ![d] = New(p, request[s].edit)]
  /\ Go(s, Idle) /\ UNCHANGED <<device, served, imported, meanwhile, clobbered, misreported>>

\* deleteCustomer leaves a tombstone.
Delete(d) ==
  /\ d \in Live
  /\ doc' = [doc EXCEPT ![d].state = "deleted", ![d].version = @ + 1]
  /\ UNCHANGED <<device, request, served, ghosts>>

\* The device pulls a record, and edits its copy.
Pull(d) ==
  /\ d \in Live
  /\ device' = [device EXCEPT ![d] = [version |-> doc[d].version, edit |-> doc[d].edit]]
  /\ device' # device
  /\ UNCHANGED <<doc, request, served, ghosts>>

\* updateCustomer: from a form, or as a pushed operation, which says what it is based on.
Edit(s, d, p) ==
  /\ d \in Live /\ ~Taken(p, d)
  /\ Serve(s, [Idle EXCEPT !.pc = "update", !.doc = d, !.phone = p])
  /\ UNCHANGED <<doc, device, ghosts>>
Push(s, d, p) ==
  /\ device[d] # Unknown
  /\ Serve(s, [Idle EXCEPT !.pc = "check", !.doc = d, !.phone = p, !.base = device[d]])
  /\ UNCHANGED <<doc, device, ghosts>>

\* runOperation: the version is compared, and the handler runs: it looks for the phone, and
\* writes the customer, which the unique index may refuse.
ConflictsIfOlder(version, base) == version < base
Conflicts(version, base) == version # base
CheckVersion(s) ==
  /\ At(s, "check")
  /\ LET d == request[s].doc
         stale == d \notin Live \/ Conflicts(doc[d].version, request[s].base.version)
     IN Go(s, IF stale THEN Idle ELSE [request[s] EXCEPT !.pc = "look"])
  /\ UNCHANGED <<doc, device, served, ghosts>>
Look(s) ==
  /\ At(s, "look")
  /\ Go(s, IF Taken(request[s].phone, request[s].doc) THEN Idle
           ELSE [request[s] EXCEPT !.pc = "update"])
  /\ UNCHANGED <<doc, device, served, ghosts>>

\* Another request's pushed edit of d has been checked, and is not written yet.
Based(s, d) ==
  \E z \in Slots \ {s} : /\ request[z].pc \in {"look", "update"} /\ request[z].doc = d
                         /\ request[z].base # Unknown
Update(s) ==
  /\ At(s, "update")
  /\ LET r == request[s]
         d == r.doc
         unseen == r.base # Unknown /\ doc[d].edit # r.base.edit
     IN IF d \notin Live \/ Holder(r.phone) \ {d} # {}
        THEN UNCHANGED <<doc, device, meanwhile, raced, clobbered>>
        ELSE /\ doc' = [doc EXCEPT ![d] = Written(d, r.phone, r.edit)]
             /\ device' = IF r.base = Unknown THEN device
                          ELSE [device EXCEPT ![d] = [version |-> doc'[d].version, edit |-> r.edit]]
             /\ meanwhile' = IF Based(s, d) THEN meanwhile \cup {r.edit} ELSE meanwhile
             /\ raced' = Races(s, {r.phone} \ {doc[d].phone})
             /\ clobbered' = IF unseen THEN clobbered \cup {doc[d].edit} ELSE clobbered
  /\ Go(s, Idle) /\ UNCHANGED <<served, imported, misreported>>

-----------------------------------------------------------------------------
\* analyzeImport: the first line with a phone nobody has, as it is written, is created, with a
\* phone somebody has updated; later lines with the same phone are duplicates.
Lines(file) == {file[k] : k \in 1..Len(file)}
Import(s, file, update) ==
  LET updates == UNION {Holder(p) \X {p} : p \in Lines(file)}
  IN /\ Serve(s, [Idle EXCEPT !.pc = "insert", !.file = file, !.update = update,
                              !.creates = {p \in Lines(file) : Holder(p) = {}},
                              !.updates = updates])
     /\ UNCHANGED <<doc, device, ghosts>>

\* Which of the free places the lines of a file take, and the book with them.
Places(lines) ==
  {place \in [lines -> Docs] :
     /\ \A p, q \in lines : place[p] = place[q] => p = q
     /\ {d \in Docs : \E p \in lines : place[p] = d} =
          {d \in Docs : /\ doc[d].state = "none"
                        /\ Cardinality({c \in Docs : c <= d /\ doc[c].state = "none"})
                             <= Cardinality(lines)}}
Filled(lines, place, edit) ==
  [d \in Docs |-> IF \E p \in lines : place[p] = d
                  THEN New(CHOOSE p \in lines : place[p] = d, edit) ELSE doc[d]]

\* insertMany, unordered: what the unique index refuses is left out.
Insert(s) ==
  /\ At(s, "insert")
  /\ LET r == request[s]
         free == {p \in r.creates : Holder(p) = {}}
     IN /\ \E place \in Places(free) : doc' = Filled(free, place, r.edit)
        /\ imported' = IF free = {} THEN imported ELSE imported \cup {r.edit}
        /\ raced' = Races(s, free)
        /\ Go(s, [r EXCEPT !.pc = "overwrite", !.created = Cardinality(free)])
  /\ UNCHANGED <<device, served, meanwhile, clobbered, misreported>>

\* bulkWrite by id, in mode update, in any order: no version is counted, tombstones are
\* written too, and the index refuses a phone that another customer took since.
Bulk(d, p, edit) == [doc[d] EXCEPT !.phone = p, !.edit = edit]
Bulked(these, edit) ==
  [d \in Docs |-> IF \E p \in Phones : <<d, p>> \in these
                  THEN Bulk(d, CHOOSE p \in Phones : <<d, p>> \in these, edit) ELSE doc[d]]
Accepted(these, edit) ==
  {done \in SUBSET these :
     /\ \A pair \in these : Holder(pair[2]) \subseteq {pair[1]} => pair \in done
     /\ \A c, d \in Live :
          Bulked(done, edit)[c].phone = Bulked(done, edit)[d].phone => c = d}
Skipped(r) ==
  (Len(r.file) - Cardinality(Lines(r.file))) + (IF r.update THEN 0 ELSE Cardinality(r.updates))
Overwrite(s) ==
  /\ At(s, "overwrite")
  /\ LET r == request[s]
         these == IF r.update THEN r.updates ELSE {}
     IN \E done \in Accepted(these, r.edit) :
          /\ doc' = Bulked(done, r.edit)
          /\ imported' = IF done = {} THEN imported ELSE imported \cup {r.edit}
          /\ raced' = Races(s, {p \in Phones : \E d \in Live : <<d, p>> \in done /\ doc[d].phone # p})
          /\ misreported' = (misreported \/
               (r.alone /\ Len(r.file) # r.created + Cardinality(done) + Skipped(r)))
  /\ Go(s, Idle) /\ UNCHANGED <<device, served, meanwhile, clobbered>>

Next ==
  \/ \E s \in Slots :
       \/ \E p \in Phones : AskCreate(s, p)
       \/ Create(s) \/ CheckVersion(s) \/ Look(s) \/ Update(s) \/ Insert(s) \/ Overwrite(s)
       \/ \E d \in Docs, p \in Phones : Edit(s, d, p) \/ Push(s, d, p)
       \/ \E file \in Files, update \in BOOLEAN : Import(s, file, update)
  \/ \E d \in Docs : Delete(d) \/ Pull(d)

Spec == Init /\ [][Next]_vars

-----------------------------------------------------------------------------
\* An edit that a device had not seen is overwritten by the edit it pushes only if an import
\* wrote it, whose bulk write does not count the version up (modules/imports/service.js), or if
\* it was made between the check of the version and the write (modules/sync/service.js).
NoSilentClobber == clobbered \subseteq imported \cup meanwhile

\* A phone, as it is written, belongs to one live customer (models/Customer.js), and so does
\* its number, unless one of two customers was last written by an import, has the number
\* spaced, or took the phone while another request had looked for it (customerController).  An
\* import that ran alone accounts for every line of its file.
BookExact ==
  /\ \A p \in Phones : Cardinality(Holder(p)) <= 1
  /\ \A c, d \in Live : c # d /\ Same(doc[c].phone, doc[d].phone) =>
       \/ {doc[c].edit, doc[d].edit} \cap imported # {}
       \/ ~({doc[c].phone, doc[d].phone} \subseteq Compact)
       \/ {doc[c].phone, doc[d].phone} \cap raced # {}
  /\ ~misreported

RecordsSound == NoSilentClobber /\ BookExact
=============================================================================
