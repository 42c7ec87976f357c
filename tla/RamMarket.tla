------------------------------ MODULE RamMarket ------------------------------
(***************************************************************************)
(* The RAM market of eosio.system: the Bancor pair of delegate_bandwidth   *)
(* and exchange_state, the supply that setram and setramrate grow, the     *)
(* bytes each account owns, the kernel's RAM limits and the tokens that    *)
(* back the market.                                                        *)
(***************************************************************************)
EXTENDS TokenLedger, LedgerArithmetic

CONSTANTS
  Account,        \* the accounts that trade RAM
  TokenSupply,    \* supply of the core token when init runs
  InitialRam,     \* max_ram_size when init runs
  InitialFunds,   \* tokens of each account when init runs
  RamGift,        \* ram_gift_bytes
  MaxRamLimit,    \* 2^50, the bound of setram
  WordSize,       \* 2^32, the width of the supply computation
  Quantities,     \* token amounts offered to buyram
  ByteCounts,     \* byte counts offered to buyrambytes and sellram
  RamSizes,       \* supplies offered to setram
  Rates,          \* rates offered to setramrate
  RamLimits,      \* limits offered to setacctram
  MaxSlot         \* the last block slot of a behaviour

SystemAccount == {"eosio.ram", "eosio.ramfee", "eosio.rex", "eosio.srpool"}

Holder == Account \union SystemAccount

ASSUME RamMarketAssumption ==
  /\ Account \intersect SystemAccount = {}
  /\ TokenSupply \in Nat /\ TokenSupply >= 1000
  /\ InitialRam \in Nat \ {0}
  /\ InitialFunds \in [Account -> Nat]
  /\ RamGift \in Nat
  /\ MaxRamLimit \in Nat
  /\ WordSize \in Nat \ {0}
  /\ Quantities \subseteq Nat /\ ByteCounts \subseteq Nat
  /\ RamSizes \subseteq Nat /\ Rates \subseteq Nat /\ RamLimits \subseteq Nat
  /\ MaxSlot \in Nat

VARIABLES
  base, quote,                \* the two balances of _rammarket
  max_ram_size, total_ram_bytes_reserved, total_ram_stake,  \* _gstate
  new_ram_per_block, last_ram_increase,                     \* _gstate2
  ram_bytes,                  \* user_resources::ram_bytes, 0 without a row
  ram_managed,                \* accounts with flags1 ram_managed
  ram_limit,                  \* the kernel's RAM limit of each account
  balance,                    \* the token ledger
  slot                        \* current_block_time

market == <<base, quote>>
totals == <<max_ram_size, total_ram_bytes_reserved, total_ram_stake>>
issuance == <<new_ram_per_block, last_ram_increase>>
accounts == <<ram_bytes, ram_managed, ram_limit>>
vars == <<market, totals, issuance, accounts, balance, slot>>

-----------------------------------------------------------------------------

\* Faulty: the formula rounded up instead of down.
BancorOutputRoundedUp(inp_reserve, out_reserve, inp) ==
  (inp * out_reserve + inp_reserve + inp - 1) \div (inp_reserve + inp)

\* exchange_state::get_bancor_output, in exact arithmetic.
BancorOutput(inp_reserve, out_reserve, inp) ==
  (inp * out_reserve) \div (inp_reserve + inp)

\* exchange_state::get_bancor_input, for out < out_reserve.
BancorInput(out_reserve, inp_reserve, out) ==
  (inp_reserve * out) \div (out_reserve - out)

\* The .5% fee, rounded up.
RamFee(amount) == (amount + 199) \div 200

\* The tokens the contract starts the market with.
InitialQuote == TokenSupply \div 1000

\* Bytes update_ram_supply adds before any other effect of an action: a
\* 32-bit product of the slots elapsed and the rate.
NewRam == ((slot - last_ram_increase) * new_ram_per_block) % WordSize

\* The balances channel_to_rex_or_pools may leave once a fee reached
\* eosio.ramfee: any part to the staking pools, the rest to REX or kept.
FeeChannelled(ledger, fee) ==
  LET ToPools(amount) == Paid(ledger, "eosio.ramfee", "eosio.srpool", amount)
  IN  UNION { {ToPools(p), Paid(ToPools(p), "eosio.ramfee", "eosio.rex", fee - p)}
                : p \in 0 .. fee }

\* Faulty: a purchase overwrites the bytes of an existing row.
OverwriteBytes(account, bytes) ==
  ram_bytes' = [ram_bytes EXCEPT ![account] = bytes]

\* The change of the account's row: buyram adds bytes, sellram takes them.
ChangeBytes(account, bytes) ==
  ram_bytes' = [ram_bytes EXCEPT ![account] = @ + bytes]

\* The limit follows the bytes of an account whose RAM is not managed.
SetRamLimit(account) ==
  ram_limit' = IF account \in ram_managed THEN ram_limit
               ELSE [ram_limit EXCEPT ![account] = ram_bytes'[account] + RamGift]

\* sellram refuses a sale whose fee would take all of its proceeds.
CoversFee(tokens_out) == tokens_out > 1

-----------------------------------------------------------------------------

Init ==
  /\ base = InitialRam
  /\ quote = InitialQuote
  /\ max_ram_size = InitialRam
  /\ total_ram_bytes_reserved = 0
  /\ total_ram_stake = 0
  /\ new_ram_per_block = 0
  /\ last_ram_increase = 0
  /\ ram_bytes = [a \in Account |-> 0]
  /\ ram_managed = {}
  /\ ram_limit = [a \in Account |-> 0]
  /\ balance = [h \in Holder |-> IF h \in Account THEN InitialFunds[h] ELSE 0]
  /\ slot = 0

BuyRam(payer, receiver, quant) ==
  LET fee == RamFee(quant)
      quant_after_fee == quant - fee
      offered == base + NewRam
      bytes_out == BancorOutput(quote, offered, quant_after_fee)
      ledger == Paid(balance, payer, "eosio.ram", quant_after_fee)
  IN  /\ quant > 0
      /\ CanPay(balance, payer, quant_after_fee)
      /\ CanPay(ledger, payer, fee)
      /\ bytes_out > 0
      /\ base' = offered - bytes_out
      /\ quote' = quote + quant_after_fee
      /\ max_ram_size' = max_ram_size + NewRam
      /\ last_ram_increase' = slot
      /\ total_ram_bytes_reserved' = total_ram_bytes_reserved + bytes_out
      /\ total_ram_stake' = total_ram_stake + quant_after_fee
      /\ ChangeBytes(receiver, bytes_out)
      /\ SetRamLimit(receiver)
      /\ balance' \in FeeChannelled(Paid(ledger, payer, "eosio.ramfee", fee), fee)
      /\ UNCHANGED <<new_ram_per_block, ram_managed, slot>>

\* The tokens buyrambytes offers for a byte count: the price before the
\* supply is brought up to date, grossed up by the fee and truncated twice.
BytesCost(bytes) == (BancorInput(base, quote, bytes) * 200) \div 199

BuyRamBytes(payer, receiver, bytes) ==
  /\ bytes < base
  /\ BuyRam(payer, receiver, BytesCost(bytes))

SellRam(account, bytes) ==
  LET offered == base + NewRam
      tokens_out == BancorOutput(offered, quote, bytes)
      fee == RamFee(tokens_out)
      ledger == Paid(balance, "eosio.ram", account, tokens_out)
  IN  /\ bytes > 0
      /\ ram_bytes[account] >= bytes
      /\ CoversFee(tokens_out)
      /\ total_ram_stake - tokens_out >= 0
      /\ CanPay(balance, "eosio.ram", tokens_out)
      /\ CanPay(ledger, account, fee)
      /\ base' = offered + bytes
      /\ quote' = quote - tokens_out
      /\ max_ram_size' = max_ram_size + NewRam
      /\ last_ram_increase' = slot
      /\ total_ram_bytes_reserved' = total_ram_bytes_reserved - bytes
      /\ total_ram_stake' = total_ram_stake - tokens_out
      /\ ChangeBytes(account, -bytes)
      /\ SetRamLimit(account)
      /\ balance' \in FeeChannelled(Paid(ledger, account, "eosio.ramfee", fee), fee)
      /\ UNCHANGED <<new_ram_per_block, ram_managed, slot>>

\* Faulty: the new bytes are not put on offer.
SetRamOffMarket(size) ==
  /\ max_ram_size < size
  /\ size < MaxRamLimit
  /\ max_ram_size' = size
  /\ UNCHANGED <<market, total_ram_bytes_reserved, total_ram_stake, issuance,
                 accounts, balance, slot>>

SetRam(size) ==
  /\ max_ram_size < size
  /\ size < MaxRamLimit
  /\ size > total_ram_bytes_reserved
  /\ base' = base + (size - max_ram_size)
  /\ max_ram_size' = size
  /\ UNCHANGED <<quote, total_ram_bytes_reserved, total_ram_stake, issuance,
                 accounts, balance, slot>>

SetRamRate(bytes_per_block) ==
  /\ base' = base + NewRam
  /\ max_ram_size' = max_ram_size + NewRam
  /\ last_ram_increase' = slot
  /\ new_ram_per_block' = bytes_per_block
  /\ UNCHANGED <<quote, total_ram_bytes_reserved, total_ram_stake, accounts,
                 balance, slot>>

\* setacctram with a limit: the account leaves the market's control.
ManageRam(account, limit) ==
  /\ ram_managed' = ram_managed \union {account}
  /\ ram_limit' = [ram_limit EXCEPT ![account] = limit]
  /\ UNCHANGED <<market, totals, issuance, ram_bytes, balance, slot>>

\* setacctram without a limit: the bytes the account owns count again.
UnmanageRam(account) ==
  /\ account \in ram_managed
  /\ ram_managed' = ram_managed \ {account}
  /\ ram_limit' = [ram_limit EXCEPT ![account] = ram_bytes[account] + RamGift]
  /\ UNCHANGED <<market, totals, issuance, ram_bytes, balance, slot>>

\* Blocks pass.
NextBlock ==
  /\ slot < MaxSlot
  /\ slot' = slot + 1
  /\ UNCHANGED <<market, totals, issuance, accounts, balance>>

Next ==
  \/ \E p, r \in Account, q \in Quantities : BuyRam(p, r, q)
  \/ \E p, r \in Account, b \in ByteCounts : BuyRamBytes(p, r, b)
  \/ \E a \in Account, b \in ByteCounts : SellRam(a, b)
  \/ \E s \in RamSizes : SetRam(s)
  \/ \E r \in Rates : SetRamRate(r)
  \/ \E a \in Account, l \in RamLimits : ManageRam(a, l)
  \/ \E a \in Account : UnmanageRam(a)
  \/ NextBlock

Spec == Init /\ [][Next]_vars

-----------------------------------------------------------------------------

TypeOK ==
  /\ base \in Nat \ {0}
  /\ quote \in Nat
  /\ max_ram_size \in Nat
  /\ total_ram_bytes_reserved \in Nat
  /\ total_ram_stake \in Nat
  /\ new_ram_per_block \in Nat
  /\ last_ram_increase \in 0 .. slot
  /\ ram_bytes \in [Account -> Nat]
  /\ ram_managed \subseteq Account
  /\ ram_limit \in [Account -> Nat]
  /\ balance \in [Holder -> Nat]
  /\ slot \in 0 .. MaxSlot

\* Each side of the Bancor pair mirrors what users hold: the bytes not on
\* offer are reserved, and the tokens on the other side are the initial
\* virtual ones plus the stake.  The two are updated by different code
\* (direct_convert, setram, update_ram_supply on one side, buyram and
\* sellram's counters on the other).
MarketMirrorsTotals ==
  /\ base + total_ram_bytes_reserved = max_ram_size
  /\ quote = InitialQuote + total_ram_stake

\* The tokens of eosio.ram are exactly the stake the contract accounts for:
\* fees, gifts of supply and rounding neither drain nor swell the account.
StakeIsBacked == balance["eosio.ram"] = total_ram_stake

\* Every reserved byte belongs to some account.
ReservedIsOwned == total_ram_bytes_reserved = SumOf(ram_bytes)

\* The books of the market agree: buyram, sellram, setram and every update of
\* the supply keep pair, counters, owned bytes and tokens in step.
MarketIsBalanced == MarketMirrorsTotals /\ StakeIsBacked /\ ReservedIsOwned

\* "this shouldn't happen" of sellram: if every owned byte came back at once
\* the market would still not pay out more than was staked with it.
WholeSupplySellable ==
  BancorOutput(base, quote, total_ram_bytes_reserved) <= total_ram_stake

\* No step lowers the product of the two sides: rounding always favours the
\* market, so no sequence of trades extracts value from it.
ProductNeverFalls == [][base' * quote' >= base * quote]_vars

\* The market implements the abstract reserve.
Reserve == INSTANCE RamReserve WITH
  FirstSupply <- InitialRam,
  Cushion <- InitialQuote,
  supply <- max_ram_size,
  sold <- total_ram_bytes_reserved,
  stake <- total_ram_stake

ReserveSpec == Reserve!Spec

-----------------------------------------------------------------------------

\* setramrate is documented as the "rate of increase of RAM in bytes per
\* block": what update_ram_supply adds is the rate times the blocks elapsed.
RateIsKept ==
  [][last_ram_increase' # last_ram_increase =>
       max_ram_size' = max_ram_size
         + (last_ram_increase' - last_ram_increase) * new_ram_per_block]_vars
==============================================================================
