--------------------------- MODULE EconomyLedger ---------------------------
(***************************************************************************)
(* The ledger of src/src/core/economy_ledger.cpp as a value: the balances, *)
(* the escrows and the journal that EconomyLedger holds in memory and that *)
(* persist_locked writes to its file as a whole.  An operation is a pair:  *)
(* the condition under which the code carries it out (every refusal leaves *)
(* the ledger as it is) and the ledger it leaves.  Every operation runs    *)
(* under the ledger's own mutex.  An account is created on first use with  *)
(* nothing in it, so a wallet that does not exist is one that holds 0.     *)
(* Identifiers, memos and times are left out.                              *)
(***************************************************************************)
EXTENDS Integers, FiniteSets, FiniteSetsExt

CONSTANTS
    Users,        \* who may have a wallet
    Amounts,      \* amounts that requests name, in minor units
    Refs,         \* references that clients choose
    Sales,        \* references the server draws for purchases: never equal to a client's
    MaxBalance    \* the largest balance: INT64_MAX in the code

ASSUME AmountsAssumption == /\ MaxBalance \in Nat
                            /\ Amounts \subseteq 1 .. MaxBalance
ASSUME RefsAssumption == Refs \cap Sales = {}

Nobody == "nobody"
ASSUME UsersAssumption == Nobody \notin Users /\ IsFiniteSet(Users)

EntryKind == {"transfer", "mint", "burn", "escrow_reserve", "escrow_commit"}
EscrowState == {"none", "reserved", "committed"}

EconomyEntry == [kind: EntryKind, ref: Refs \cup Sales,
                 from: Users \cup {Nobody}, to: Users \cup {Nobody}, amount: Amounts]
EconomyEscrow == [state: EscrowState, buyer: Users \cup {Nobody},
                  seller: Users \cup {Nobody}, amount: Amounts \cup {0}]

NoEscrow == [state |-> "none", buyer |-> Nobody, seller |-> Nobody, amount |-> 0]

EmptyLedger == [balance |-> [u \in Users |-> 0],
                escrow  |-> [s \in Sales |-> NoEscrow],
                entries |-> {}]

Ledgers == [balance: [Users -> 0 .. MaxBalance],
            escrow:  [Sales -> EconomyEscrow],
            entries: SUBSET EconomyEntry]

----------------------------------------------------------------------------
AddOverflows(current, amount) == current > MaxBalance - amount

ReferenceExists(L, ref) ==
    \/ \E e \in L.entries : e.ref = ref
    \/ ref \in Sales /\ L.escrow[ref].state # "none"

Append(L, kind, ref, from, to, amount) ==
    L.entries \cup {[kind |-> kind, ref |-> ref, from |-> from, to |-> to, amount |-> amount]}

\* Mutant: the recipient's wallet is not checked for room.
CanTransfer_NoOverflow(L, from, to, amount, ref) ==
    /\ from # to
    /\ ~ReferenceExists(L, ref)
    /\ L.balance[from] >= amount

CanTransfer(L, from, to, amount, ref) ==
    /\ from # to
    /\ ~ReferenceExists(L, ref)
    /\ L.balance[from] >= amount
    /\ ~AddOverflows(L.balance[to], amount)

Transfer(L, from, to, amount, ref) ==
    [L EXCEPT !.balance[from] = @ - amount,
              !.balance[to]   = @ + amount,
              !.entries       = Append(L, "transfer", ref, from, to, amount)]

CanMint(L, to, amount, ref) ==
    /\ ~ReferenceExists(L, ref)
    /\ ~AddOverflows(L.balance[to], amount)

Mint(L, to, amount, ref) ==
    [L EXCEPT !.balance[to] = @ + amount,
              !.entries     = Append(L, "mint", ref, Nobody, to, amount)]

CanBurn(L, from, amount, ref) ==
    /\ ~ReferenceExists(L, ref)
    /\ L.balance[from] >= amount

Burn(L, from, amount, ref) ==
    [L EXCEPT !.balance[from] = @ - amount,
              !.entries       = Append(L, "burn", ref, from, Nobody, amount)]

\* Mutant: the seller's wallet is first checked for room when it is paid.
CanReserve_NoOverflow(L, buyer, seller, amount, ref) ==
    /\ buyer # seller
    /\ ~ReferenceExists(L, ref)
    /\ L.balance[buyer] >= amount

CanReserve(L, buyer, seller, amount, ref) ==
    /\ buyer # seller
    /\ ~ReferenceExists(L, ref)
    /\ ~AddOverflows(L.balance[seller], amount)
    /\ L.balance[buyer] >= amount

(* The journal entry of an escrow has the reference "<ref>:reserve" or     *)
(* "<ref>:commit"; here the kind tells the two apart.                      *)
Reserve(L, buyer, seller, amount, ref) ==
    [L EXCEPT !.balance[buyer] = @ - amount,
              !.escrow[ref] = [state |-> "reserved", buyer |-> buyer,
                               seller |-> seller, amount |-> amount],
              !.entries = Append(L, "escrow_reserve", ref, buyer, Nobody, amount)]

CanCommit(L, ref) ==
    /\ L.escrow[ref].state = "reserved"
    /\ ~AddOverflows(L.balance[L.escrow[ref].seller], L.escrow[ref].amount)

\* Mutant: a committed escrow stays reserved.
CommitEscrow_KeepsState(L, ref) ==
    LET e == L.escrow[ref] IN
    [L EXCEPT !.balance[e.seller] = @ + e.amount,
              !.entries = Append(L, "escrow_commit", ref, Nobody, e.seller, e.amount)]

CommitEscrow(L, ref) ==
    LET e == L.escrow[ref] IN
    [L EXCEPT !.balance[e.seller] = @ + e.amount,
              !.escrow[ref].state = "committed",
              !.entries = Append(L, "escrow_commit", ref, Nobody, e.seller, e.amount)]

----------------------------------------------------------------------------
(* total_supply_minor without its saturation: what is in wallets and what  *)
(* is held in escrow.                                                      *)
Reserved(L) == {s \in Sales : L.escrow[s].state = "reserved"}

SumOver(f, S) == MapThenSumSet(LAMBDA x : f[x], S)

TotalSupply(L) == SumOver(L.balance, Users)
                + SumOver([s \in Sales |-> L.escrow[s].amount], Reserved(L))

(* What the journal says of a wallet, and of the money in existence.       *)
Sum(entries) == SumOver([e \in entries |-> e.amount], entries)
Received(L, u) == Sum({e \in L.entries : e.to = u})
Paid(L, u)     == Sum({e \in L.entries : e.from = u})
Minted(L)      == Sum({e \in L.entries : e.kind = "mint"})
Burned(L)      == Sum({e \in L.entries : e.kind = "burn"})

(* Every balance is what the journal says, and no money appears or goes    *)
(* but by mint and burn.                                                   *)
Balanced(L) == /\ \A u \in Users : L.balance[u] = Received(L, u) - Paid(L, u)
               /\ TotalSupply(L) = Minted(L) - Burned(L)
============================================================================
