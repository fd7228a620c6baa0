------------------------------- MODULE Split -------------------------------
(***************************************************************************)
(* The split contract (contracts/split/src/lib.rs): invoices that pay a    *)
(* list of recipients out of the contract's token balance, with failed     *)
(* payouts recorded for a retry.                                           *)
(*                                                                         *)
(* Every call below needs a SuperAdmin's signature.  The contract exports  *)
(* no call that changes roles, so its one admin is the one SuperAdmin, and *)
(* the set_admin at the end of create_invoice stores that address again;   *)
(* who signs is therefore left out.  One token serves all invoices.  A     *)
(* call whose token transfer panics is undone.                             *)
(***************************************************************************)
EXTENDS Integers, Sequences, Functions

CONSTANTS
    Ids,             \* invoice ids
    Payees,          \* recipients' addresses
    RecipientLists,  \* the recipients create_invoice is called with
    Totals,          \* ... and its total amounts
    Deposits,        \* amounts sent to the contract
    MaxFunds,        \* bound on what is ever sent to the contract
    MaxCreates,      \* bound on create_invoice calls per id
    MaxReleases      \* bound on release_payment calls per id

MaxRetries == 3

Recipient == [to : Payees, amount : Int]

ASSUME SplitAssumption ==
    /\ RecipientLists \subseteq Seq(Recipient)
    /\ Totals \subseteq Int /\ Deposits \subseteq Nat
    /\ MaxFunds \in Nat /\ MaxCreates \in Nat /\ MaxReleases \in Nat

VARIABLES
    invoice,  \* DataKey::Invoice(id); status "None" before create_invoice
    failed,   \* DataKey::FailedPayout(id, recipient); retries 0 when absent
    balance,    \* the contract's balance at the token
    funds,    \* history: everything sent to the contract
    paid,     \* history: what each recipient got for each invoice
    creates,  \* history: create_invoice calls per id
    releases  \* history: successful release_payment calls per id

splitVars == <<invoice, failed, balance, funds, paid, creates, releases>>

Status == {"None", "Pending", "PartiallyReleased", "FullyReleased", "Failed"}

Absent == [amount |-> 0, retries |-> 0]

SplitTypeOK ==
    /\ invoice \in [Ids -> [status : Status, total : Nat, released : Nat,
                            recipients : Seq(Recipient)]]
    /\ failed \in [Ids -> [Payees -> [amount : Nat, retries : 0..MaxRetries]]]
    /\ balance \in Nat /\ funds \in Nat
    /\ paid \in [Ids -> [Payees -> Nat]]
    /\ creates \in [Ids -> Nat]
    /\ releases \in [Ids -> Nat]

SplitInit ==
    /\ invoice = [i \in Ids |-> [status |-> "None", total |-> 0, released |-> 0,
                                 recipients |-> <<>>]]
    /\ failed = [i \in Ids |-> [p \in Payees |-> Absent]]
    /\ balance = 0 /\ funds = 0
    /\ paid = [i \in Ids |-> [p \in Payees |-> 0]]
    /\ creates = [i \in Ids |-> 0]
    /\ releases = [i \in Ids |-> 0]

\* The sum of the amounts in a list of recipients
Total(rs) == SumFunction([k \in DOMAIN rs |-> rs[k].amount])

----------------------------------------------------------------------------
(* Calls *)

\* create_invoice overwrites an invoice of the same id and leaves its failed
\* payouts in place
CreateInvoice(i, total, rs) ==
    /\ creates[i] < MaxCreates
    /\ total > 0
    /\ \A k \in DOMAIN rs : rs[k].amount > 0
    /\ Total(rs) = total
    /\ invoice' = [invoice EXCEPT ![i] = [status |-> "Pending", total |-> total,
                                          released |-> 0, recipients |-> rs]]
    /\ creates' = [creates EXCEPT ![i] = @ + 1]
    /\ UNCHANGED <<failed, balance, funds, paid, releases>>

\* try_transfer returns false instead of calling the token
CanPay(held, n) == held >= n /\ n > 0

\* One iteration of the loop of release_payment over what the earlier ones
\* left: balance, the sum paid, the number of failures, the failed payouts, and
\* what each recipient got.
PayRecipient(acc, r) ==
    CASE acc.failed[r.to].retries >= MaxRetries -> acc
      [] acc.failed[r.to].retries < MaxRetries /\ CanPay(acc.balance, r.amount) ->
            [acc EXCEPT !.balance = @ - r.amount, !.sum = @ + r.amount,
                        !.paid[r.to] = @ + r.amount]
      [] OTHER ->
            [acc EXCEPT !.failures = @ + 1,
                        !.failed[r.to] = [amount |-> r.amount, retries |-> @.retries + 1]]

\* Mutant: takes "nothing failed" for "everything was paid"
StatusByFailures(inv, acc) ==
    CASE acc.failures = Len(inv.recipients) -> "Failed"
      [] acc.failures = 0                   -> "FullyReleased"
      [] OTHER                              -> "PartiallyReleased"

StatusAfter(inv, acc) ==
    CASE acc.failures = Len(inv.recipients) -> "Failed"
      [] acc.sum = inv.total                -> "FullyReleased"
      [] OTHER                              -> "PartiallyReleased"

\* The loop of release_payment over the recipients: what is there after all
\* of them, from what was there before the first.
PayAll(start, rs) ==
    LET after[k \in 0 .. Len(rs)] ==
            IF k = 0 THEN start ELSE PayRecipient(after[k - 1], rs[k])
    IN  after[Len(rs)]

\* release_payment: the invoice is written only if somebody was paid, and stays
\* Pending otherwise
ReleasePayment(i) ==
    /\ invoice[i].status = "Pending"
    /\ releases[i] < MaxReleases
    /\ LET start == [balance |-> balance, sum |-> 0, failures |-> 0,
                     failed |-> failed[i], paid |-> paid[i]]
           acc == PayAll(start, invoice[i].recipients)
       IN  /\ balance' = acc.balance
           /\ failed' = [failed EXCEPT ![i] = acc.failed]
           /\ paid' = [paid EXCEPT ![i] = acc.paid]
           /\ invoice' = IF acc.sum > 0
                         THEN [invoice EXCEPT ![i].released = acc.sum,
                                              ![i].status = StatusAfter(invoice[i], acc)]
                         ELSE invoice
    /\ releases' = [releases EXCEPT ![i] = @ + 1]
    /\ UNCHANGED <<funds, creates>>

\* Mutant: the record is not removed
RetryKeepingRecord(i, p) ==
    /\ invoice[i].status # "None"
    /\ failed[i][p].retries \in 1 .. MaxRetries - 1
    /\ CanPay(balance, failed[i][p].amount)
    /\ balance' = balance - failed[i][p].amount
    /\ paid' = [paid EXCEPT ![i][p] = @ + failed[i][p].amount]
    /\ UNCHANGED <<invoice, failed, funds, creates, releases>>

\* retry_failed_payout: neither the status nor released_amount follows.  A retry
\* that cannot pay returns an error, which undoes its count of the attempt too.
RetryFailedPayout(i, p) ==
    /\ invoice[i].status # "None"
    /\ failed[i][p].retries \in 1 .. MaxRetries - 1
    /\ CanPay(balance, failed[i][p].amount)
    /\ balance' = balance - failed[i][p].amount
    /\ paid' = [paid EXCEPT ![i][p] = @ + failed[i][p].amount]
    /\ failed' = [failed EXCEPT ![i][p] = Absent]
    /\ UNCHANGED <<invoice, funds, creates, releases>>

\* Somebody sends tokens to the contract
Fund(n) ==
    /\ funds + n <= MaxFunds
    /\ balance' = balance + n
    /\ funds' = funds + n
    /\ UNCHANGED <<invoice, failed, paid, creates, releases>>

SplitNext ==
    \/ \E i \in Ids, t \in Totals, rs \in RecipientLists : CreateInvoice(i, t, rs)
    \/ \E i \in Ids : ReleasePayment(i)
    \/ \E i \in Ids, p \in Payees : RetryFailedPayout(i, p)
    \/ \E n \in Deposits : Fund(n)

SplitSpec == SplitInit /\ [][SplitNext]_splitVars

----------------------------------------------------------------------------
(* Properties *)

\* The share of recipient p in a list of recipients
Share(rs, p) == SumFunction([k \in {j \in DOMAIN rs : rs[j].to = p} |-> rs[k].amount])

\* No recipient is named twice
Distinct(rs) == \A j, k \in DOMAIN rs : rs[j].to = rs[k].to => j = k

\* Failure isolation ("failed transfers recorded for retry", README): from the
\* first release of an invoice until it is released or created again, through
\* any mix of retries and of other invoices draining the same balance, each
\* recipient has been paid its share or has exactly its share on record.  For
\* lists that name a recipient once: the second failure of a recipient
\* overwrites the record of the first.
FailuresAreIsolated ==
    \A i \in Ids :
        creates[i] = 1 /\ releases[i] = 1 /\ Distinct(invoice[i].recipients) =>
            \A p \in Payees : paid[i][p] + failed[i][p].amount = Share(invoice[i].recipients, p)

\* An invoice that is there was checked when it was created, has been released
\* only since, and before its first release nobody was paid or is on record.
InvoicesInOrder ==
    \A i \in Ids :
        /\ invoice[i].status = "None" <=> creates[i] = 0
        /\ creates[i] = 0 => releases[i] = 0
        /\ releases[i] = 0 => \A p \in Payees : paid[i][p] = 0 /\ failed[i][p] = Absent
        /\ \A k \in DOMAIN invoice[i].recipients : invoice[i].recipients[k].amount > 0
        /\ Total(invoice[i].recipients) = invoice[i].total
        /\ \A p \in Payees : failed[i][p].retries = 0 => failed[i][p] = Absent

\* An invoice is FullyReleased only if every recipient got its share, also when
\* release_payment skipped recipients that had failed too often.
FullMeansPaid ==
    \A i \in Ids :
        invoice[i].status = "FullyReleased" =>
            \A p \in Payees : paid[i][p] >= Share(invoice[i].recipients, p)

\* Between the vault and the recipients no share is lost or paid twice after a
\* first release, and the balance never goes below zero.
PaidOrOnRecord == SplitTypeOK /\ InvoicesInOrder /\ FailuresAreIsolated
=============================================================================
