-------------------------------- MODULE Invoices --------------------------------
(***************************************************************************)
(* Invoices: internal/module/invoice.  (No migration creates the table:    *)
(* the module is modelled over the one its entity describes.)              *)
(*                                                                         *)
(* A number is the millisecond of the creation, and unique.  Update and    *)
(* UpdateStatus read the row, change it in memory and save all of it; only *)
(* UpdateStatus tells the bus that an invoice was paid.                    *)
(***************************************************************************)
EXTENDS Requests, Sequences

CONSTANTS
    Billers,        \* users
    Clerks,         \* those that may manage invoices
    MaxInvoices,    \* bounds on the rows
    MaxClock        \* and on the milliseconds

ASSUME InvoicesAssumption == MaxInvoices \in Nat /\ MaxClock \in Nat \ {0}

VARIABLES
    invoices,       \* rows, by the order of their insertion
    clock,
    announced,      \* events published: <<type, invoice, status in the payload>>
    settled,        \* history: the rows as the last successful requests left them,
    entangled,      \*          those written while another request held a copy,
    billed,         \*          <<invoice, user, amount>> of the amounts sent,
    payments        \*          how often UpdateStatus wrote "paid"

invoiceVars == <<invoices, clock, announced, settled, entangled, billed, payments>>

InvoiceStatus == {"draft", "pending", "paid", "cancelled"}
Amount == 1..MaxRequests

Invoice == [owner : Billers, number : 1..MaxClock, amount : Amount, status : InvoiceStatus,
            deleted : BOOLEAN]

InvoiceRequest ==
    [pc : {"create", "created", "update", "save", "delete", "drop", "status", "savestatus",
           "paid"},
     user : Billers, id : 0..MaxInvoices, number : 1..MaxClock, amount : Amount,
     status : InvoiceStatus \cup {"same"}, copy : Seq(Invoice)]

InvoicesTypeOK ==
    /\ invoices \in Seq(Invoice) /\ Len(invoices) <= MaxInvoices
    /\ clock \in 1..MaxClock
    /\ announced \in Seq({"created", "paid"} \X (DOMAIN invoices) \X InvoiceStatus)
    /\ settled \in Seq(Invoice) /\ Len(settled) = Len(invoices)
    /\ payments \in Seq(Nat) /\ Len(payments) = Len(invoices)
    /\ entangled \subseteq DOMAIN invoices
    /\ billed \subseteq (DOMAIN invoices) \X Billers \X Amount
    /\ RequestsAre(InvoiceRequest)

InvoicesInit ==
    /\ invoices = <<>> /\ clock = 1 /\ announced = <<>> /\ settled = <<>>
    /\ entangled = {} /\ billed = {} /\ payments = <<>>

\* Time passes, also between the number and the row.
Tick ==
    /\ clock < MaxClock
    /\ clock' = clock + 1
    /\ UNCHANGED <<invoices, announced, settled, entangled, billed, payments, requestVars>>

-----------------------------------------------------------------------------
(* The repository *)

Invoice_FindByID(i) == i \in DOMAIN invoices /\ ~invoices[i].deleted
Invoice_FindByUserID(u) ==
    {i \in DOMAIN invoices : invoices[i].owner = u /\ ~invoices[i].deleted}
Invoice_FindAll == {i \in DOMAIN invoices : ~invoices[i].deleted}

\* The unique index, over deleted rows too.
NumberIsFree(n) == \A i \in DOMAIN invoices : invoices[i].number # n

\* Save writes deleted_at as it was read.  (History: who held a copy meanwhile.)
Invoice_Save(r, i, row) ==
    /\ invoices' = [invoices EXCEPT ![i] = row]
    /\ entangled' = IF \E s \in Others(r) :
                        ~At(s, "idle") /\ req[s].id = i /\ req[s].copy # <<>>
                  THEN entangled \cup {i} ELSE entangled

Publish(type, i, status) == announced' = Append(announced, <<type, i, status>>)

\* A request of user u about invoice i.
InvoiceCall(label, u, i, amount, status) ==
    [pc |-> label, user |-> u, id |-> i, number |-> clock, amount |-> amount,
     status |-> status, copy |-> <<>>]

-----------------------------------------------------------------------------
(* Create *)

\* generateInvoiceNumber reads the clock.
HandleCreateInvoice(r, u) ==
    Begin(r, InvoiceCall("create", u, 0, begun + 1, "draft")) /\ UNCHANGED invoiceVars

\* A number taken in the same millisecond is an internal error.
CreateInvoice(r) ==
    LET q == req[r]
        row == [owner |-> q.user, number |-> q.number, amount |-> q.amount,
                status |-> q.status, deleted |-> FALSE]
        i == Len(invoices) + 1
    IN  /\ At(r, "create")
        /\ Len(invoices) < MaxInvoices
        /\ IF NumberIsFree(q.number)
           THEN /\ invoices' = Append(invoices, row)
                /\ settled' = Append(settled, row)
                /\ payments' = Append(payments, 0)
                /\ billed' = billed \cup {<<i, q.user, q.amount>>}
                /\ Become(r, [q EXCEPT !.pc = "created", !.id = i])
           ELSE UNCHANGED <<invoices, settled, billed, payments>> /\ Finish(r)
        /\ UNCHANGED <<clock, announced, entangled>>

AnnounceInvoice(r) ==
    /\ At(r, "created")
    /\ Publish("created", req[r].id, "draft")
    /\ Finish(r)
    /\ UNCHANGED <<invoices, clock, settled, entangled, billed, payments>>

-----------------------------------------------------------------------------
(* Update and Delete *)

\* Mutant of IsOwnedBy: a row of anybody.
IsOwnedByAny(i, u) == Invoice_FindByID(i)

IsOwnedBy(i, u) == Invoice_FindByID(i) /\ (u \in Clerks \/ invoices[i].owner = u)

HandleUpdateInvoice(r, u, i, status) ==
    Begin(r, InvoiceCall("update", u, i, begun + 1, status)) /\ UNCHANGED invoiceVars

UpdateInvoice(r) ==
    LET q == req[r]
    IN  /\ At(r, "update")
        /\ IF IsOwnedBy(q.id, q.user)
           THEN Become(r, [q EXCEPT !.pc = "save", !.copy = <<invoices[q.id]>>])
           ELSE Finish(r)
        /\ UNCHANGED invoiceVars

\* The fields sent replace those read; no event, whatever the status.
SaveInvoice(r) ==
    LET q == req[r]
        With(row) == [row EXCEPT !.amount = q.amount,
                                 !.status = IF q.status = "same" THEN @ ELSE q.status]
    IN  /\ At(r, "save")
        /\ Invoice_Save(r, q.id, With(q.copy[1]))
        /\ settled' = [settled EXCEPT ![q.id] = With(@)]
        /\ billed' = billed \cup {<<q.id, q.user, q.amount>>}
        /\ Finish(r)
        /\ UNCHANGED <<clock, announced, payments>>

HandleDeleteInvoice(r, u, i) ==
    Begin(r, InvoiceCall("delete", u, i, begun + 1, "same")) /\ UNCHANGED invoiceVars

DeleteInvoice(r) ==
    /\ At(r, "delete")
    /\ IF IsOwnedBy(req[r].id, req[r].user) THEN Goto(r, "drop") ELSE Finish(r)
    /\ UNCHANGED invoiceVars

SoftDeleteInvoice(r) ==
    LET i == req[r].id
    IN  /\ At(r, "drop")
        /\ IF Invoice_FindByID(i)
           THEN /\ Invoice_Save(r, i, [invoices[i] EXCEPT !.deleted = TRUE])
                /\ settled' = [settled EXCEPT ![i].deleted = TRUE]
           ELSE UNCHANGED <<invoices, settled, entangled>>
        /\ Finish(r)
        /\ UNCHANGED <<clock, announced, billed, payments>>

-----------------------------------------------------------------------------
(* UpdateStatus *)

HandleInvoiceStatus(r, u, i, status) ==
    /\ u \in Clerks
    /\ Begin(r, InvoiceCall("status", u, i, begun + 1, status))
    /\ UNCHANGED invoiceVars

UpdateInvoiceStatus(r) ==
    LET q == req[r]
    IN  /\ At(r, "status")
        /\ IF Invoice_FindByID(q.id)
           THEN Become(r, [q EXCEPT !.pc = "savestatus", !.copy = <<invoices[q.id]>>])
           ELSE Finish(r)
        /\ UNCHANGED invoiceVars

SaveInvoiceStatus(r) ==
    LET q == req[r]
    IN  /\ At(r, "savestatus")
        /\ Invoice_Save(r, q.id, [q.copy[1] EXCEPT !.status = q.status])
        /\ settled' = [settled EXCEPT ![q.id].status = q.status]
        /\ IF q.status = "paid"
           THEN payments' = [payments EXCEPT ![q.id] = @ + 1] /\ Goto(r, "paid")
           ELSE UNCHANGED payments /\ Finish(r)
        /\ UNCHANGED <<clock, announced, billed>>

AnnouncePayment(r) ==
    /\ At(r, "paid")
    /\ Publish("paid", req[r].id, "paid")
    /\ Finish(r)
    /\ UNCHANGED <<invoices, clock, settled, entangled, billed, payments>>

-----------------------------------------------------------------------------

InvoiceHandlers(r) ==
    \E u \in Billers :
        \/ HandleCreateInvoice(r, u)
        \/ \E i \in DOMAIN invoices :
            \/ \E s \in {"same", "pending", "paid"} : HandleUpdateInvoice(r, u, i, s)
            \/ HandleDeleteInvoice(r, u, i)
            \/ \E s \in {"paid", "cancelled"} : HandleInvoiceStatus(r, u, i, s)

InvoicesNext ==
    \/ Tick
    \/ \E r \in Slots :
        \/ InvoiceHandlers(r)
        \/ CreateInvoice(r) \/ AnnounceInvoice(r)
        \/ UpdateInvoice(r) \/ SaveInvoice(r)
        \/ DeleteInvoice(r) \/ SoftDeleteInvoice(r)
        \/ UpdateInvoiceStatus(r) \/ SaveInvoiceStatus(r) \/ AnnouncePayment(r)
        \/ Abort(r) /\ UNCHANGED invoiceVars

-----------------------------------------------------------------------------
(* Properties *)

\* What a user is shown: an invoice, the list and its total.
GetInvoice(u, i) == IF IsOwnedBy(i, u) THEN <<invoices[i]>> ELSE <<>>
ListInvoices(u) == IF u \in Clerks THEN Invoice_FindAll ELSE Invoice_FindByUserID(u)

\* The owner of i or a clerk sent this amount for it.
IsBilled(i, owner, amount) == \E v \in {owner} \cup Clerks : <<i, v, amount>> \in billed

\* The amount of an invoice is one that its owner or a clerk sent for it, and no two
\* invoices have a number in common, however requests overlap.
AmountsAreTheOwners ==
    \A u \in Billers : \A i \in ListInvoices(u) :
        /\ GetInvoice(u, i) # <<>>
        /\ IsBilled(i, invoices[i].owner, invoices[i].amount)
        /\ \A j \in ListInvoices(u) : invoices[i].number = invoices[j].number => i = j

\* What was answered with success stands until another request changes the same
\* field, unless one wrote the row while another held a copy of it.
InvoicesStand ==
    \A i \in DOMAIN invoices \ entangled : invoices[i] = settled[i]

\* The events of a type about invoice i.
About(type, i) == {m \in DOMAIN announced : announced[m][1] = type /\ announced[m][2] = i}

\* The bus hears once of each invoice that it was created and, when all is quiet and
\* nothing failed, as often that it was paid as UpdateStatus said so, by then perhaps
\* of an invoice that is deleted.
InvoicesAreAnnounced ==
    \A i \in DOMAIN invoices :
        /\ Cardinality(About("created", i)) <= 1
        /\ Quiet /\ faults = 0 =>
            /\ About("created", i) # {}
            /\ Cardinality(About("paid", i)) = payments[i]

InvoicesHold == AmountsAreTheOwners /\ InvoicesStand /\ InvoicesAreAnnounced

InvoicesSpec == InvoicesInit /\ RequestsInit /\ [][InvoicesNext]_<<invoiceVars, requestVars>>

-----------------------------------------------------------------------------
(* What is inductive, and gives these promises *)

\* A row has an amount that was sent for it and is what was agreed, unless requests
\* overlapped; and no number is given twice.
InvoicesAreSound ==
    /\ \A i \in DOMAIN invoices :
        /\ IsBilled(i, invoices[i].owner, invoices[i].amount)
        /\ i \in entangled \/ invoices[i] = settled[i]
    /\ \A i, j \in DOMAIN invoices : invoices[i].number = invoices[j].number => i = j

\* The requests that are about to tell the bus of invoice i.
Announcing(label, i) == {r \in Slots : At(r, label) /\ req[r].id = i}

AnnouncementsAreOwed ==
    \A i \in DOMAIN invoices :
        /\ Accounted(Cardinality(About("created", i)), 1, Announcing("created", i), faults)
        /\ Accounted(Cardinality(About("paid", i)), payments[i], Announcing("paid", i), faults)

\* What a request has learnt on its way: he who asks may, and the copy it will save is
\* the row, or the row is named as entangled.
KnowsItsInvoice(q) ==
    /\ q.pc \notin {"idle", "create"} => q.id \in DOMAIN invoices
    /\ q.pc \in {"create", "status", "savestatus"} => q.status \in InvoiceStatus
    /\ q.pc = "save" => q.user \in Clerks \cup {invoices[q.id].owner}
    /\ q.pc \in {"save", "savestatus"} =>
        LET row == q.copy[1]
            now == invoices[q.id]
        IN  /\ q.copy # <<>> /\ row.owner = now.owner /\ row.number = now.number
            /\ IsBilled(q.id, row.owner, row.amount)
            /\ q.id \in entangled \/ row = now

InvoicesInv ==
    /\ InvoicesTypeOK /\ InvoicesAreSound /\ AnnouncementsAreOwed
    /\ \A r \in Slots : KnowsItsInvoice(req[r])
=============================================================================
