------------------------------ MODULE ReconRules ------------------------------
(***************************************************************************)
(* The rules by which a reconciliation run compares payments, refunds,     *)
(* payouts, fees and the ledger with each other and with the provider      *)
(* (apps/api/src/reconciliation/recon-rules.ts).  They report and correct  *)
(* nothing.  An issue is a record: what is wrong, with which row, how      *)
(* severe.  Absent identifiers are Absent.                                 *)
(***************************************************************************)
EXTENDS Integers, SequencesExt

Absent == "absent"

Issue(type, severity, entity) == [type |-> type, severity |-> severity, entity |-> entity]

(* The issue of every row of a set.                                        *)
Issues(type, severity, rows) == {Issue(type, severity, row.id) : row \in rows}

HoldsMoney == {"HELD", "RELEASED", "REFUNDED"}

----------------------------------------------------------------------------
(* Payments, in the order the database gives them, and the provider's.     *)
Compatible(remote, local) ==
    \/ remote = "approved" /\ local \in {"HELD", "RELEASED"}
    \/ remote = "refunded" /\ local = "REFUNDED"
    \/ remote = "rejected" /\ local = "REJECTED"
    \/ remote = "pending" /\ local = "PENDING"

(* The payments of a checkout share its charge; the first stands for all.  *)
FirstOf(local, charge) == local[Min({i \in DOMAIN local : local[i].charge = charge})]

ComparePayments(local, remote, known, configured) ==
    LET charges == {pay.charge : pay \in Range(local)} \ {Absent}
        shared == {c \in charges : \E i, j \in DOMAIN local :
                     i # j /\ local[i].charge = c /\ local[j].charge = c}
        firsts == {FirstOf(local, c) : c \in charges}
        matched == {m \in firsts \X remote : m[1].charge = m[2].id}
        unlike == {m \in matched : ~Compatible(m[2].status, m[1].status)}
        grave == {m \in unlike : m[2].status = "refunded" \/ m[1].status \in HoldsMoney}
        extra == {row \in remote : row.id \notin charges}
    IN  Issues("PAYMENT_MISSING_PROVIDER", IF configured THEN "CRITICAL" ELSE "WARNING",
               {pay \in Range(local) : pay.charge = Absent /\ pay.status \in HoldsMoney})
        \cup Issues("PAYMENT_MISSING_PROVIDER", "CRITICAL",
               firsts \ {m[1] : m \in matched})
        \cup Issues("DUPLICATE_PROVIDER_PAYMENT", "CRITICAL", {FirstOf(local, c) : c \in shared})
        \cup Issues("PAYMENT_STATUS_MISMATCH", "CRITICAL", {m[1] : m \in grave})
        \cup Issues("PAYMENT_STATUS_MISMATCH", "WARNING", {m[1] : m \in unlike \ grave})
        \cup Issues("PAYMENT_AMOUNT_MISMATCH", "CRITICAL",
               {m[1] : m \in {n \in matched : n[1].amount # n[2].amount}})
        \cup Issues("PAYMENT_MISSING_LOCAL", "CRITICAL",
               {row \in extra : row.checkout \in known})
        \cup Issues("UNKNOWN_PROVIDER_PAYMENT", "CRITICAL",
               {row \in extra : row.checkout \notin known})

----------------------------------------------------------------------------
(* Refunds.  A row matches the provider's refund it names, or the first of *)
(* its charge and amount that no row before it has matched: the first of   *)
(* the indices that are found.                                             *)
MatchOf(local, remote, taken) ==
    LET named == {i \in DOMAIN remote : remote[i].id = local.remote}
        alike == {i \in DOMAIN remote : /\ remote[i].charge = local.charge
                                        /\ remote[i].amount = local.amount
                                        /\ remote[i].id \notin taken}
    IN  IF named # {} THEN named ELSE alike

StatusIssues(local, row) ==
    CASE local.status = "COMPLETED" /\ row.status # "approved" ->
           {Issue("REFUND_STATUS_MISMATCH", "CRITICAL", local.id)}
      [] local.status = "FAILED" /\ row.status = "approved" ->
           {Issue("REFUND_STATUS_MISMATCH", "CRITICAL", local.id)}
      [] local.status = "PENDING" /\ row.status = "approved" ->
           {Issue("REFUND_STATUS_MISMATCH", "WARNING", local.id)}
      [] OTHER -> {}

CompareOneRefund(acc, local, remote) ==
    LET found == MatchOf(local, remote, acc.taken)
        row == remote[Min(found)]
    IN  IF found # {}
        THEN [taken |-> acc.taken \cup {row.id},
              issues |-> acc.issues \cup StatusIssues(local, row)
                         \cup IF row.amount # local.amount
                              THEN {Issue("REFUND_AMOUNT_MISMATCH", "CRITICAL", local.id)}
                              ELSE {}]
        ELSE [taken |-> acc.taken,
              issues |-> acc.issues \cup IF local.status = "COMPLETED"
                           THEN {Issue("REFUND_MISSING_PROVIDER", "CRITICAL", local.id)}
                           ELSE {}]

(* What the first n rows match and report, for every n.                    *)
Compared(local, remote) ==
    LET done[n \in 0..Len(local)] ==
          IF n = 0 THEN [taken |-> {}, issues |-> {}]
                   ELSE CompareOneRefund(done[n - 1], local[n], remote)
    IN  done

CompareRefunds(local, remote) ==
    LET done == Compared(local, remote)[Len(local)]
    IN  done.issues \cup Issues("REFUND_MISSING_LOCAL", "CRITICAL",
                                {row \in Range(remote) : row.id \notin done.taken})

----------------------------------------------------------------------------
(* The ledger: keys is the set of the keys <<type, row>> it has.           *)
CompareLedger(payments, refunds, payouts, keys) ==
    Issues("LEDGER_MISSING_PAYMENT_CAPTURED", "CRITICAL",
           {pay \in payments : pay.status \in {"HELD", "RELEASED"}
                               /\ <<"PAYMENT_CAPTURED", pay.id>> \notin keys})
    \cup Issues("LEDGER_MISSING_SELLER_PAYABLE", "CRITICAL",
           {pay \in payments : pay.status = "RELEASED" /\ pay.orderStatus = "COMPLETED"
                               /\ <<"SELLER_PAYABLE", pay.order>> \notin keys})
    \cup Issues("LEDGER_MISSING_REFUND", "CRITICAL",
           {ref \in refunds : ref.status = "COMPLETED" /\ <<"REFUND", ref.id>> \notin keys})
    \cup Issues("PAYOUT_LEDGER_MISMATCH", "CRITICAL",
           {out \in payouts : out.status = "PAID" /\ <<"PAYOUT_PAID", out.id>> \notin keys})

LedgerIssues == {"LEDGER_MISSING_PAYMENT_CAPTURED", "LEDGER_MISSING_SELLER_PAYABLE",
                 "LEDGER_MISSING_REFUND", "PAYOUT_LEDGER_MISMATCH"}
=============================================================================
