----------------------------- MODULE PickLedger -----------------------------
(***************************************************************************)
(* What the daily stock picks promise to their readers (the REST handlers, *)
(* the statistics, Slack): a published list is replaced only as a whole    *)
(* and never by an empty one, and a settled pick keeps its outcome until   *)
(* its date is published anew.                                             *)
(***************************************************************************)
CONSTANTS Days, Brands

States == {"absent", "pending", "win", "lose", "draw", "void"}
Settled == {"win", "lose", "draw", "void"}

VARIABLE ledger    \* pick_date -> symbol -> state

LedgerTypeOK == ledger \in [Days -> [Brands -> States]]

LedgerInit == ledger = [d \in Days |-> [b \in Brands |-> "absent"]]

\* The picks of date d become exactly the symbols S.
Publish(d, S) ==
    /\ S # {}
    /\ ledger' = [ledger EXCEPT ![d] =
                     [b \in Brands |-> IF b \in S THEN "pending" ELSE "absent"]]

\* An evaluation settles some of the pending picks, of any dates.
SettleSome ==
    /\ ledger' \in [Days -> [Brands -> States]]
    /\ \A d \in Days, b \in Brands :
           \/ ledger'[d][b] = ledger[d][b]
           \/ ledger[d][b] = "pending" /\ ledger'[d][b] \in Settled

LedgerNext ==
    \/ \E d \in Days, S \in SUBSET Brands : Publish(d, S)
    \/ SettleSome

LedgerSpec == LedgerInit /\ [][LedgerNext]_ledger
=============================================================================
