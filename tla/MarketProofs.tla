---------------------------- MODULE MarketProofs ----------------------------
(***************************************************************************)
(* Theorems about the two markets of resources.  The RAM market stays      *)
(* within its types, mirrors its totals, is backed by tokens and implements*)
(* the abstract reserve, which can always buy back what it sold.  The      *)
(* power-up market lends no weight twice and loses none, and its fees cannot*)
(* be lowered by splitting a purchase.  All of it holds for any accounts,  *)
(* amounts, supplies and configurations.                                   *)
(***************************************************************************)
EXTENDS RamMarket, Sequences

\* The invariant the proofs carry.  TypeOK alone is not inductive: that
\* the reserved bytes stay a natural needs their sum over the accounts, and
\* that the stake is paid out in full needs its token backing.
MarketInv ==
  /\ TypeOK
  /\ MarketMirrorsTotals
  /\ StakeIsBacked
  /\ ReservedIsOwned
  /\ IsFiniteSet(Units(ram_bytes))

-----------------------------------------------------------------------------

\* The market opens with a positive number of virtual tokens.
LEMMA QuoteIsPositive == InitialQuote \in Nat \ {0}
  BY RamMarketAssumption DEF InitialQuote

\* The bytes update_ram_supply adds are a natural number.
LEMMA NewRamIsNat == TypeOK => NewRam \in Nat
  <1> SUFFICES ASSUME TypeOK PROVE NewRam \in Nat
    OBVIOUS
  <1> DEFINE elapsed == slot - last_ram_increase
  <1>1. elapsed \in Nat /\ new_ram_per_block \in Nat
    BY RamMarketAssumption DEF TypeOK
  <1> HIDE DEF elapsed
  <1>2. elapsed * new_ram_per_block \in Nat /\ WordSize \in Nat \ {0}
    BY <1>1, RamMarketAssumption
  <1>3. (elapsed * new_ram_per_block) % WordSize \in Nat
    BY <1>2
  <1> QED
    BY <1>3 DEF NewRam, elapsed

\* The fee is positive and, from two tokens on, leaves something.
LEMMA FeeLeavesSomething ==
  ASSUME NEW amount \in Nat \ {0}
  PROVE  /\ RamFee(amount) \in Nat \ {0}
         /\ RamFee(amount) <= amount
         /\ amount > 1 => RamFee(amount) < amount
  BY DEF RamFee

\* Passing a fee on touches neither the market's tokens nor the traders'.
LEMMA FeeStaysOutside ==
  ASSUME NEW ledger \in [Holder -> Nat], NEW fee \in Nat,
         fee <= ledger["eosio.ramfee"], NEW after \in FeeChannelled(ledger, fee)
  PROVE  /\ after \in [Holder -> Nat]
         /\ after["eosio.ram"] = ledger["eosio.ram"]
         /\ \A a \in Account : after[a] = ledger[a]
  <1>1. PICK p \in 0 .. fee :
          LET b == Paid(ledger, "eosio.ramfee", "eosio.srpool", p)
          IN  after \in {b, Paid(b, "eosio.ramfee", "eosio.rex", fee - p)}
    BY DEF FeeChannelled
  <1> DEFINE b == Paid(ledger, "eosio.ramfee", "eosio.srpool", p)
  <1>2. /\ b \in [Holder -> Nat]
        /\ b["eosio.ramfee"] = ledger["eosio.ramfee"] - p
        /\ b["eosio.ram"] = ledger["eosio.ram"]
        /\ \A a \in Account : b[a] = ledger[a]
    BY RamMarketAssumption DEF Paid, Holder, SystemAccount
  <1> HIDE DEF b
  <1>3. CASE after = b
    BY <1>2, <1>3
  <1>4. CASE after = Paid(b, "eosio.ramfee", "eosio.rex", fee - p)
    BY <1>2, <1>4, RamMarketAssumption DEF Paid, Holder, SystemAccount
  <1> QED
    BY <1>1, <1>3, <1>4 DEF b

\* A payment between different holders that the sender can afford.
LEMMA PaymentEffect ==
  ASSUME NEW ledger \in [Holder -> Nat], NEW from \in Holder, NEW to \in Holder,
         from # to, NEW amount \in Nat, CanPay(ledger, from, amount)
  PROVE  /\ Paid(ledger, from, to, amount) \in [Holder -> Nat]
         /\ Paid(ledger, from, to, amount)[from] = ledger[from] - amount
         /\ Paid(ledger, from, to, amount)[to] = ledger[to] + amount
         /\ \A h \in Holder \ {from, to} :
              Paid(ledger, from, to, amount)[h] = ledger[h]
  BY DEF CanPay, Paid
-----------------------------------------------------------------------------

\* What every step owes the abstract reserve.
KeepsReserve ==
  /\ max_ram_size' >= max_ram_size
  /\ base' * quote' >= base * quote + (max_ram_size' - max_ram_size) * quote

\* buyram: the payer's tokens join the stake, the receiver's bytes leave the
\* market, and the price was at least the Bancor price.
LEMMA BuyRamStep ==
  ASSUME MarketInv, NEW payer \in Account, NEW receiver \in Account,
         NEW quant \in Nat, BuyRam(payer, receiver, quant)
  PROVE  MarketInv' /\ KeepsReserve
  <1> DEFINE fee == RamFee(quant)
             paid == quant - fee
             offered == base + NewRam
             bytes_out == BancorOutput(quote, offered, paid)
             ledger == Paid(balance, payer, "eosio.ram", paid)
             charged == Paid(ledger, payer, "eosio.ramfee", fee)
  <1>1. /\ CanPay(balance, payer, paid)
        /\ CanPay(ledger, payer, fee)
        /\ bytes_out > 0
        /\ base' = offered - bytes_out
        /\ quote' = quote + paid
        /\ max_ram_size' = max_ram_size + NewRam
        /\ last_ram_increase' = slot
        /\ total_ram_bytes_reserved' = total_ram_bytes_reserved + bytes_out
        /\ total_ram_stake' = total_ram_stake + paid
        /\ ram_bytes' = [ram_bytes EXCEPT ![receiver] = @ + bytes_out]
        /\ SetRamLimit(receiver)
        /\ balance' \in FeeChannelled(charged, fee)
        /\ UNCHANGED <<new_ram_per_block, ram_managed, slot>>
        /\ quant > 0
    BY DEF BuyRam, ChangeBytes
  <1>2. /\ NewRam \in Nat
        /\ fee \in Nat \ {0}
        /\ paid \in Nat
    BY <1>1, NewRamIsNat, FeeLeavesSomething DEF MarketInv
  <1>3. /\ base \in Nat \ {0} /\ quote \in Nat \ {0} /\ max_ram_size \in Nat
        /\ total_ram_bytes_reserved \in Nat /\ total_ram_stake \in Nat
        /\ ram_bytes \in [Account -> Nat] /\ balance \in [Holder -> Nat]
        /\ base + total_ram_bytes_reserved = max_ram_size
        /\ quote = InitialQuote + total_ram_stake
    BY QuoteIsPositive DEF MarketInv, TypeOK, MarketMirrorsTotals
  <1> HIDE DEF fee, paid, offered, ledger, charged
  <1>4. offered \in Nat \ {0}
    BY <1>2, <1>3 DEF offered
  <1>5. /\ bytes_out \in Nat
        /\ bytes_out < offered
        /\ (quote + paid) * (offered - bytes_out) >= quote * offered
    BY <1>2, <1>3, <1>4, BancorKeepsProduct DEF BancorOutput
  <1> HIDE DEF bytes_out
  <1>6. KeepsReserve
    <2>1. /\ base' \in Nat /\ quote' \in Nat
          /\ max_ram_size' - max_ram_size = NewRam
      BY <1>1, <1>2, <1>3, <1>4, <1>5
    <2>2. quote * offered = base * quote + NewRam * quote
      BY <1>2, <1>3 DEF offered
    <2>3. base' * quote' = (quote + paid) * (offered - bytes_out)
      BY <1>1, <1>2, <1>3, <1>4, <1>5
    <2>4. max_ram_size' >= max_ram_size
      BY <1>1, <1>2, <1>3
    <2> QED
      BY <1>5, <2>1, <2>2, <2>3, <2>4 DEF KeepsReserve
  <1>7. /\ balance' \in [Holder -> Nat]
        /\ balance'["eosio.ram"] = balance["eosio.ram"] + paid
    <2>1. /\ payer \in Holder /\ "eosio.ram" \in Holder /\ "eosio.ramfee" \in Holder
          /\ payer # "eosio.ram" /\ payer # "eosio.ramfee"
      BY RamMarketAssumption DEF Holder, SystemAccount
    <2>2. /\ ledger \in [Holder -> Nat]
          /\ ledger["eosio.ram"] = balance["eosio.ram"] + paid
      BY <1>1, <1>2, <1>3, <2>1, PaymentEffect DEF ledger
    <2>3. /\ charged \in [Holder -> Nat]
          /\ charged["eosio.ram"] = ledger["eosio.ram"]
          /\ fee <= charged["eosio.ramfee"]
      BY <1>1, <1>2, <2>1, <2>2, PaymentEffect DEF charged
    <2> QED
      BY <1>1, <1>2, <2>2, <2>3, FeeStaysOutside
  <1>8. /\ ram_bytes' \in [Account -> Nat]
        /\ IsFiniteSet(Units(ram_bytes))'
        /\ ReservedIsOwned'
    <2>1. /\ ram_bytes[receiver] + bytes_out \in Nat /\ ram_bytes[receiver] \in Nat
          /\ SumOf(ram_bytes) = total_ram_bytes_reserved
      BY <1>3, <1>5 DEF MarketInv, ReservedIsOwned
    <2> DEFINE owned == ram_bytes[receiver] + bytes_out
    <2>2. ram_bytes' = [ram_bytes EXCEPT ![receiver] = owned] /\ owned \in Nat
      BY <1>1, <2>1
    <2> HIDE DEF owned
    <2>3. /\ IsFiniteSet(Units(ram_bytes'))
          /\ SumOf(ram_bytes') = SumOf(ram_bytes) - ram_bytes[receiver] + owned
      <3>1. IsFiniteSet(Units(ram_bytes))
        BY DEF MarketInv
      <3> QED
        BY <1>3, <2>2, <3>1, SumUpdate, ZenonT(60)
    <2>4. SumOf(ram_bytes') = total_ram_bytes_reserved + bytes_out
      BY <1>3, <1>5, <2>1, <2>3 DEF owned
    <2>5. ram_bytes' \in [Account -> Nat]
      BY <1>3, <2>2
    <2> QED
      BY <1>1, <2>3, <2>4, <2>5 DEF ReservedIsOwned
  <1>9. TypeOK'
    <2>1. ram_limit' \in [Account -> Nat]
      BY <1>1, <1>8, RamMarketAssumption DEF SetRamLimit, MarketInv, TypeOK
    <2>2. /\ base' \in Nat \ {0} /\ quote' \in Nat /\ max_ram_size' \in Nat
          /\ total_ram_bytes_reserved' \in Nat /\ total_ram_stake' \in Nat
      BY <1>1, <1>2, <1>3, <1>4, <1>5
    <2> QED
      BY <1>1, <1>7, <1>8, <2>1, <2>2 DEF MarketInv, TypeOK
  <1>10. MarketMirrorsTotals' /\ StakeIsBacked'
    <2>1. MarketMirrorsTotals'
      <3>1. InitialQuote \in Nat
        BY QuoteIsPositive
      <3> QED
        BY <1>1, <1>2, <1>3, <1>5, <3>1 DEF MarketMirrorsTotals, offered
    <2>2. StakeIsBacked'
      BY <1>1, <1>7 DEF MarketInv, StakeIsBacked
    <2> QED
      BY <2>1, <2>2
  <1> QED
    BY <1>6, <1>8, <1>9, <1>10 DEF MarketInv
\* sellram: what the seller is paid leaves the stake, and the market keeps at
\* least the value of the bytes it takes back.
LEMMA SellRamStep ==
  ASSUME MarketInv, NEW account \in Account, NEW bytes \in Nat,
         SellRam(account, bytes)
  PROVE  /\ MarketInv'
         /\ KeepsReserve
         /\ balance'[account] > balance[account]
  <1> DEFINE offered == base + NewRam
             tokens_out == BancorOutput(offered, quote, bytes)
             fee == RamFee(tokens_out)
             ledger == Paid(balance, "eosio.ram", account, tokens_out)
             charged == Paid(ledger, account, "eosio.ramfee", fee)
             left == ram_bytes[account] - bytes
  <1>1. /\ bytes > 0
        /\ ram_bytes[account] >= bytes
        /\ tokens_out > 1
        /\ total_ram_stake - tokens_out >= 0
        /\ CanPay(balance, "eosio.ram", tokens_out)
        /\ CanPay(ledger, account, fee)
        /\ base' = offered + bytes
        /\ quote' = quote - tokens_out
        /\ max_ram_size' = max_ram_size + NewRam
        /\ last_ram_increase' = slot
        /\ total_ram_bytes_reserved' = total_ram_bytes_reserved - bytes
        /\ total_ram_stake' = total_ram_stake - tokens_out
        /\ ram_bytes' = [ram_bytes EXCEPT ![account] = left]
        /\ SetRamLimit(account)
        /\ balance' \in FeeChannelled(charged, fee)
        /\ UNCHANGED <<new_ram_per_block, ram_managed, slot>>
    BY DEF SellRam, ChangeBytes, CoversFee
  <1>2. /\ base \in Nat \ {0} /\ quote \in Nat \ {0} /\ max_ram_size \in Nat
        /\ total_ram_bytes_reserved \in Nat /\ total_ram_stake \in Nat
        /\ ram_bytes \in [Account -> Nat] /\ balance \in [Holder -> Nat]
        /\ base + total_ram_bytes_reserved = max_ram_size
        /\ quote = InitialQuote + total_ram_stake
        /\ SumOf(ram_bytes) = total_ram_bytes_reserved
        /\ IsFiniteSet(Units(ram_bytes))
        /\ NewRam \in Nat
    BY QuoteIsPositive, NewRamIsNat
    DEF MarketInv, TypeOK, MarketMirrorsTotals, ReservedIsOwned
  <1> HIDE DEF offered, ledger, charged
  <1>3. offered \in Nat \ {0}
    BY <1>2 DEF offered
  <1>4. /\ tokens_out \in Nat
        /\ tokens_out < quote
        /\ (offered + bytes) * (quote - tokens_out) >= offered * quote
    <2>1. quote \in Nat /\ quote > 0
      BY <1>2
    <2> QED
      BY <1>3, <2>1, BancorKeepsProduct DEF BancorOutput
  <1> HIDE DEF tokens_out
  <1>5. fee \in Nat \ {0} /\ fee < tokens_out
    <2>1. tokens_out \in Nat \ {0} /\ tokens_out > 1
      BY <1>1, <1>4
    <2> QED
      BY <2>1, FeeLeavesSomething
  <1> HIDE DEF fee
  <1>6. KeepsReserve
    <2>1. max_ram_size' - max_ram_size = NewRam /\ max_ram_size' >= max_ram_size
      BY <1>1, <1>2
    <2>2. offered * quote = base * quote + NewRam * quote
      BY <1>2 DEF offered
    <2>3. base' * quote' = (offered + bytes) * (quote - tokens_out)
      BY <1>1
    <2> QED
      BY <1>4, <2>1, <2>2, <2>3 DEF KeepsReserve
  <1>7. /\ balance' \in [Holder -> Nat]
        /\ balance'["eosio.ram"] = balance["eosio.ram"] - tokens_out
        /\ balance'[account] = balance[account] + tokens_out - fee
    <2>1. /\ account \in Holder /\ "eosio.ram" \in Holder /\ "eosio.ramfee" \in Holder
          /\ account # "eosio.ram" /\ account # "eosio.ramfee"
      BY RamMarketAssumption DEF Holder, SystemAccount
    <2>2. /\ ledger \in [Holder -> Nat]
          /\ ledger["eosio.ram"] = balance["eosio.ram"] - tokens_out
          /\ ledger[account] = balance[account] + tokens_out
      BY <1>1, <1>2, <1>4, <2>1, PaymentEffect DEF ledger
    <2>3. /\ charged \in [Holder -> Nat]
          /\ charged["eosio.ram"] = ledger["eosio.ram"]
          /\ charged[account] = ledger[account] - fee
          /\ fee <= charged["eosio.ramfee"]
      BY <1>1, <1>5, <2>1, <2>2, PaymentEffect DEF charged
    <2>4. /\ balance' \in [Holder -> Nat]
          /\ balance'["eosio.ram"] = charged["eosio.ram"]
          /\ balance'[account] = charged[account]
      BY <1>1, <1>5, <2>3, FeeStaysOutside
    <2>5. balance'["eosio.ram"] = balance["eosio.ram"] - tokens_out
      BY <2>2, <2>3, <2>4
    <2>6. balance'[account] = balance[account] + tokens_out - fee
      BY <1>2, <1>4, <1>5, <2>1, <2>2, <2>3, <2>4
    <2> QED
      BY <2>4, <2>5, <2>6
  <1>8. balance'[account] > balance[account]
    <2>1. balance[account] \in Nat
      BY <1>2 DEF Holder
    <2> QED
      BY <1>4, <1>5, <1>7, <2>1
  <1>9. left \in Nat /\ ram_bytes[account] \in Nat
    BY <1>1, <1>2
  <1> HIDE DEF left
  <1>10. /\ ram_bytes' \in [Account -> Nat]
         /\ IsFiniteSet(Units(ram_bytes'))
         /\ SumOf(ram_bytes') = total_ram_bytes_reserved - ram_bytes[account] + left
    BY <1>1, <1>2, <1>9, SumUpdate, ZenonT(60)
  <1>11. total_ram_bytes_reserved' = SumOf(ram_bytes') /\ total_ram_bytes_reserved' \in Nat
    <2>1. bytes <= total_ram_bytes_reserved
      BY <1>1, <1>2, <1>9, SumBoundsEntry
    <2> QED
      BY <1>1, <1>2, <1>9, <1>10, <2>1 DEF left
  <1>12. TypeOK'
    <2>1. ram_limit' \in [Account -> Nat]
      BY <1>1, <1>10, RamMarketAssumption DEF SetRamLimit, MarketInv, TypeOK
    <2>2. /\ base' \in Nat \ {0} /\ quote' \in Nat /\ max_ram_size' \in Nat
          /\ total_ram_stake' \in Nat
      BY <1>1, <1>2, <1>3, <1>4
    <2> QED
      BY <1>1, <1>7, <1>10, <1>11, <2>1, <2>2 DEF MarketInv, TypeOK
  <1>13. MarketMirrorsTotals' /\ StakeIsBacked'
    <2>1. MarketMirrorsTotals'
      <3>1. InitialQuote \in Nat
        BY QuoteIsPositive
      <3> QED
        BY <1>1, <1>2, <1>4, <3>1 DEF MarketMirrorsTotals, offered
    <2>2. StakeIsBacked'
      BY <1>1, <1>7 DEF MarketInv, StakeIsBacked
    <2> QED
      BY <2>1, <2>2
  <1> QED
    BY <1>6, <1>8, <1>10, <1>11, <1>12, <1>13 DEF MarketInv, ReservedIsOwned
\* setram and setramrate add bytes to the market and to nothing else.
LEMMA SupplyStep ==
  ASSUME MarketInv,
         \/ \E size \in RamSizes : SetRam(size)
         \/ \E rate \in Rates : SetRamRate(rate)
  PROVE  MarketInv' /\ KeepsReserve
  <1>1. PICK added \in Nat :
          /\ base' = base + added
          /\ max_ram_size' = max_ram_size + added
          /\ new_ram_per_block' \in Nat
          /\ last_ram_increase' \in 0 .. slot
          /\ UNCHANGED <<quote, total_ram_bytes_reserved, total_ram_stake,
                         accounts, balance, slot>>
    <2>1. CASE \E size \in RamSizes : SetRam(size)
      <3>1. PICK size \in RamSizes : SetRam(size)
        BY <2>1
      <3>2. max_ram_size \in Nat /\ size \in Nat /\ base \in Nat /\ size > max_ram_size
        BY <3>1, RamMarketAssumption DEF SetRam, MarketInv, TypeOK
      <3>3. size - max_ram_size \in Nat /\ max_ram_size + (size - max_ram_size) = size
        BY <3>2
      <3> QED
        BY <3>1, <3>3 DEF SetRam, issuance, MarketInv, TypeOK
    <2>2. CASE \E rate \in Rates : SetRamRate(rate)
      <3>1. NewRam \in Nat /\ slot \in 0 .. slot
        BY NewRamIsNat, RamMarketAssumption DEF MarketInv, TypeOK
      <3> QED
        BY <2>2, <3>1, RamMarketAssumption DEF SetRamRate
    <2> QED
      BY <2>1, <2>2
  <1>2. /\ base \in Nat \ {0} /\ quote \in Nat /\ max_ram_size \in Nat
        /\ total_ram_bytes_reserved \in Nat
        /\ base + total_ram_bytes_reserved = max_ram_size
    BY DEF MarketInv, TypeOK, MarketMirrorsTotals
  <1>3. KeepsReserve
    <2>1. max_ram_size' - max_ram_size = added /\ max_ram_size' >= max_ram_size
      BY <1>1, <1>2
    <2>2. base' * quote' = base * quote + added * quote
      BY <1>1, <1>2
    <2>3. base * quote \in Int /\ added * quote \in Int
      BY <1>1, <1>2
    <2> QED
      BY <2>1, <2>2, <2>3 DEF KeepsReserve
  <1>4. TypeOK'
    BY <1>1, <1>2 DEF MarketInv, TypeOK, accounts
  <1>5. MarketMirrorsTotals'
    BY <1>1, <1>2 DEF MarketInv, MarketMirrorsTotals
  <1>6. StakeIsBacked' /\ ReservedIsOwned' /\ IsFiniteSet(Units(ram_bytes))'
    BY <1>1 DEF MarketInv, StakeIsBacked, ReservedIsOwned, accounts
  <1> QED
    BY <1>3, <1>4, <1>5, <1>6 DEF MarketInv

\* The remaining steps leave the market and what backs it alone.
LEMMA QuietStep ==
  ASSUME MarketInv,
         \/ \E a \in Account, l \in RamLimits : ManageRam(a, l)
         \/ \E a \in Account : UnmanageRam(a)
         \/ NextBlock
         \/ UNCHANGED vars
  PROVE  MarketInv' /\ KeepsReserve
  <1>1. UNCHANGED <<market, totals, issuance, ram_bytes, balance>>
    BY DEF ManageRam, UnmanageRam, NextBlock, vars, accounts
  <1>2. /\ ram_managed' \subseteq Account
        /\ ram_limit' \in [Account -> Nat]
    <2>1. CASE \E a \in Account, l \in RamLimits : ManageRam(a, l)
      BY <2>1, RamMarketAssumption DEF ManageRam, MarketInv, TypeOK
    <2>2. CASE \E a \in Account : UnmanageRam(a)
      BY <2>2, RamMarketAssumption DEF UnmanageRam, MarketInv, TypeOK
    <2>3. CASE NextBlock \/ UNCHANGED vars
      BY <2>3 DEF NextBlock, vars, accounts, MarketInv, TypeOK
    <2> QED
      BY <2>1, <2>2, <2>3
  <1>3. slot' \in 0 .. MaxSlot /\ slot' >= slot
    BY RamMarketAssumption
    DEF ManageRam, UnmanageRam, NextBlock, vars, MarketInv, TypeOK
  <1>4. TypeOK'
    BY <1>1, <1>2, <1>3 DEF MarketInv, TypeOK, market, totals, issuance
  <1>5. /\ MarketMirrorsTotals' /\ StakeIsBacked' /\ ReservedIsOwned'
        /\ IsFiniteSet(Units(ram_bytes))'
    BY <1>1 DEF MarketInv, MarketMirrorsTotals, StakeIsBacked, ReservedIsOwned,
                market, totals
  <1>6. KeepsReserve
    <2>1. base * quote \in Int /\ quote \in Nat /\ max_ram_size \in Nat
      BY DEF MarketInv, TypeOK
    <2> QED
      BY <1>1, <2>1 DEF KeepsReserve, market, totals
  <1> QED
    BY <1>4, <1>5, <1>6 DEF MarketInv

\* Every step of the market keeps the invariant and the reserve's product.
LEMMA MarketStep ==
  ASSUME MarketInv, [Next]_vars
  PROVE  MarketInv' /\ KeepsReserve
  <1>1. CASE \E p, r \in Account, q \in Quantities : BuyRam(p, r, q)
    BY <1>1, BuyRamStep, RamMarketAssumption
  <1>2. CASE \E p, r \in Account, b \in ByteCounts : BuyRamBytes(p, r, b)
    <2>1. PICK p \in Account, r \in Account, b \in ByteCounts : BuyRamBytes(p, r, b)
      BY <1>2
    <2>2. BytesCost(b) \in Nat
      <3>1. /\ b \in Nat /\ base \in Nat /\ b < base /\ quote \in Nat
        BY <2>1, RamMarketAssumption DEF BuyRamBytes, MarketInv, TypeOK
      <3>2. base - b \in Nat \ {0} /\ quote * b \in Nat
        BY <3>1
      <3>3. BancorInput(base, quote, b) \in Nat
        BY <3>2, DivisionBounds DEF BancorInput
      <3> QED
        BY <3>3 DEF BytesCost
    <2> QED
      BY <2>1, <2>2, BuyRamStep DEF BuyRamBytes
  <1>3. CASE \E a \in Account, b \in ByteCounts : SellRam(a, b)
    BY <1>3, SellRamStep, RamMarketAssumption
  <1>4. CASE \/ \E s \in RamSizes : SetRam(s)
             \/ \E r \in Rates : SetRamRate(r)
    BY <1>4, SupplyStep
  <1>5. CASE \/ \E a \in Account, l \in RamLimits : ManageRam(a, l)
             \/ \E a \in Account : UnmanageRam(a)
             \/ NextBlock
             \/ UNCHANGED vars
    BY <1>5, QuietStep
  <1> QED
    BY <1>1, <1>2, <1>3, <1>4, <1>5 DEF Next

\* The market opens in the invariant.
LEMMA MarketInit == Init => MarketInv
  <1> SUFFICES ASSUME Init PROVE MarketInv
    OBVIOUS
  <1>1. TypeOK
    BY QuoteIsPositive, RamMarketAssumption DEF Init, TypeOK, Holder
  <1>2. MarketMirrorsTotals
    BY QuoteIsPositive, RamMarketAssumption DEF Init, MarketMirrorsTotals
  <1>3. StakeIsBacked
    BY RamMarketAssumption DEF Init, StakeIsBacked, Holder, SystemAccount
  <1>4. ReservedIsOwned /\ IsFiniteSet(Units(ram_bytes))
    BY SumOfZeros DEF Init, ReservedIsOwned
  <1> QED
    BY <1>1, <1>2, <1>3, <1>4 DEF MarketInv

-----------------------------------------------------------------------------

\* Type correctness: in particular no counter of the market ever goes below
\* zero, so total_ram_bytes_reserved never wraps around.
THEOREM RamTypeCorrect == Spec => []TypeOK
  <1>1. MarketInv => TypeOK
    BY DEF MarketInv
  <1> QED
    BY <1>1, MarketInit, MarketStep, PTL DEF Spec

\* The Bancor pair mirrors the totals, the stake is backed token for token,
\* and every reserved byte is owned by an account.
THEOREM RamMarketBalanced ==
  Spec => []MarketIsBalanced
  <1>1. MarketInv => MarketIsBalanced
    BY DEF MarketInv, MarketIsBalanced
  <1> QED
    BY <1>1, MarketInit, MarketStep, PTL DEF Spec

\* No sequence of purchases, sales and supply increases lowers the product of
\* the two sides of the market.
THEOREM RamProductNeverFalls == Spec => ProductNeverFalls
  <1>1. MarketInv /\ [Next]_vars => [base' * quote' >= base * quote]_vars
    <2> SUFFICES ASSUME MarketInv, [Next]_vars
                 PROVE  base' * quote' >= base * quote
      OBVIOUS
    <2>1. MarketInv' /\ KeepsReserve
      BY MarketStep
    <2>2. /\ max_ram_size \in Nat /\ max_ram_size' \in Nat /\ max_ram_size' >= max_ram_size
          /\ quote \in Nat /\ base \in Nat /\ quote' \in Nat /\ base' \in Nat
      BY <2>1 DEF MarketInv, TypeOK, KeepsReserve
    <2>3. max_ram_size' - max_ram_size \in Nat
      BY <2>2, DifferenceIsNat
    <2>4. /\ (max_ram_size' - max_ram_size) * quote \in Nat
          /\ base * quote \in Nat
          /\ base' * quote' \in Nat
      BY <2>2, <2>3, ProductIsNat
    <2> QED
      BY <2>1, <2>4 DEF KeepsReserve
  <1> QED
    BY <1>1, MarketInit, MarketStep, PTL DEF Spec, ProductNeverFalls

\* The market implements the abstract reserve: trades, supply increases and
\* fee routing are reserve steps, everything else stutters.
THEOREM RamMarketIsReserve == Spec => ReserveSpec
  <1>1. Init => Reserve!Init
    BY DEF Init, Reserve!Init
  <1>2. MarketInv /\ MarketInv' /\ KeepsReserve => [Reserve!Next]_(Reserve!vars)
    <2> SUFFICES ASSUME MarketInv, MarketInv', KeepsReserve
                 PROVE  Reserve!Step
      BY DEF Reserve!Next
    <2>1. /\ base \in Nat /\ base' \in Nat \ {0}
          /\ max_ram_size \in Nat /\ max_ram_size' \in Nat
          /\ total_ram_bytes_reserved \in Nat /\ total_ram_bytes_reserved' \in Nat
          /\ total_ram_stake' \in Nat
          /\ base + total_ram_bytes_reserved = max_ram_size
          /\ base' + total_ram_bytes_reserved' = max_ram_size'
          /\ quote = InitialQuote + total_ram_stake
          /\ quote' = InitialQuote + total_ram_stake'
      BY DEF MarketInv, TypeOK, MarketMirrorsTotals
    <2>2. /\ base = max_ram_size - total_ram_bytes_reserved
          /\ base' = max_ram_size' - total_ram_bytes_reserved'
          /\ total_ram_bytes_reserved' < max_ram_size'
      BY <2>1, PartOfWhole
    <2>3. Reserve!Depth = base * quote /\ Reserve!Depth' = base' * quote'
      BY <2>1, <2>2 DEF Reserve!Depth
    <2>4. (max_ram_size' - max_ram_size) * quote
            = (max_ram_size' - max_ram_size) * (InitialQuote + total_ram_stake)
      BY <2>1
    <2>5. Reserve!Depth' >= Reserve!Depth
            + (max_ram_size' - max_ram_size) * (InitialQuote + total_ram_stake)
      BY <2>3, <2>4 DEF KeepsReserve
    <2> QED
      BY <2>1, <2>2, <2>5 DEF Reserve!Step, KeepsReserve
  <1> QED
    BY <1>1, <1>2, MarketInit, MarketStep, PTL DEF Spec, ReserveSpec, Reserve!Spec

\* By how much a natural has grown.
LEMMA GrowthIsNat ==
  ASSUME NEW m \in Nat, NEW n \in Nat, n >= m
  PROVE  \E k \in Nat : n - m = k /\ n = m + k
  <1>1. n - m \in Nat /\ n = m + (n - m)
    OBVIOUS
  <1> QED
    BY <1>1

\* A reserve whose product covers its supply at the opening price still does
\* when the supply grows and the product with it.
LEMMA GrowthKeepsCover ==
  ASSUME NEW supply \in Nat, NEW more \in Nat, NEW cushion \in Nat, NEW stake \in Nat,
         NEW depth \in Int, NEW after \in Int,
         supply * cushion <= depth, after >= depth + more * (cushion + stake)
  PROVE  (supply + more) * cushion <= after
  <1>1. /\ (supply + more) * cushion = supply * cushion + more * cushion
        /\ more * (cushion + stake) = more * cushion + more * stake
    OBVIOUS
  <1>2. supply * cushion \in Nat /\ more * cushion \in Nat /\ more * stake \in Nat
    OBVIOUS
  <1> QED
    BY <1>1, <1>2

\* Such a reserve can pay for all it has sold.
LEMMA CoverPaysForAll ==
  ASSUME NEW supply \in Nat \ {0}, NEW sold \in Nat, NEW cushion \in Nat, NEW stake \in Nat,
         sold < supply, supply * cushion <= (supply - sold) * (cushion + stake)
  PROVE  (sold * (cushion + stake)) \div (supply - sold + sold) <= stake
  <1> DEFINE worth == sold * (cushion + stake)
  <1>1. worth \in Nat /\ supply - sold + sold = supply
    OBVIOUS
  <1>2. worth + (supply - sold) * (cushion + stake) = supply * cushion + supply * stake
    OBVIOUS
  <1>3. /\ supply * cushion \in Int /\ supply * stake \in Int
        /\ (supply - sold) * (cushion + stake) \in Int
    OBVIOUS
  <1> HIDE DEF worth
  <1>4. worth <= supply * stake
    BY <1>1, <1>2, <1>3
  <1>5. worth < (stake + 1) * supply
    <2>1. (stake + 1) * supply = supply * stake + supply
      OBVIOUS
    <2> QED
      BY <1>1, <1>3, <1>4, <2>1
  <1>6. worth \div supply <= stake
    BY <1>1, <1>5, DivisionAtMost
  <1> QED
    BY <1>1, <1>6 DEF worth

\* The abstract reserve never owes more than it holds.
THEOREM ReserveStaysSolvent ==
  ASSUME Reserve!ReserveConstants
  PROVE  Reserve!Spec => []Reserve!Solvent
  <1>1. InitialRam \in Nat \ {0} /\ InitialQuote \in Nat \ {0}
    BY DEF Reserve!ReserveConstants
  <1>2. Reserve!Init => Reserve!ReserveInv
    BY <1>1 DEF Reserve!Init, Reserve!ReserveInv, Reserve!TypeOK, Reserve!DepthCoversSupply,
                Reserve!Depth
  <1>3. Reserve!ReserveInv /\ [Reserve!Next]_(Reserve!vars) => Reserve!ReserveInv'
    <2> SUFFICES ASSUME Reserve!ReserveInv, [Reserve!Next]_(Reserve!vars)
                 PROVE  Reserve!ReserveInv'
      OBVIOUS
    <2>1. CASE Reserve!Step
      <3>1. Reserve!TypeOK'
        BY <2>1 DEF Reserve!Step, Reserve!ReserveInv, Reserve!TypeOK
      <3>2. /\ max_ram_size \in Nat /\ max_ram_size' \in Nat /\ total_ram_stake \in Nat
            /\ max_ram_size' >= max_ram_size
            /\ Reserve!Depth \in Int /\ Reserve!Depth' \in Int
            /\ max_ram_size * InitialQuote <= Reserve!Depth
        BY <1>1, <2>1, <3>1
        DEF Reserve!Step, Reserve!ReserveInv, Reserve!TypeOK, Reserve!DepthCoversSupply,
            Reserve!Depth
      <3>3. Reserve!Depth' >= Reserve!Depth
              + (max_ram_size' - max_ram_size) * (InitialQuote + total_ram_stake)
        BY <2>1 DEF Reserve!Step
      <3>4. PICK more \in Nat : /\ max_ram_size' - max_ram_size = more
                               /\ max_ram_size' = max_ram_size + more
        BY <3>2, GrowthIsNat
      <3>5. Reserve!Depth' >= Reserve!Depth + more * (InitialQuote + total_ram_stake)
        BY <3>3, <3>4
      <3>6. (max_ram_size + more) * InitialQuote <= Reserve!Depth'
        BY <1>1, <3>2, <3>4, <3>5, GrowthKeepsCover
      <3> QED
        BY <3>1, <3>4, <3>6 DEF Reserve!ReserveInv, Reserve!DepthCoversSupply
    <2>2. CASE UNCHANGED Reserve!vars
      BY <2>2 DEF Reserve!vars, Reserve!ReserveInv, Reserve!TypeOK, Reserve!DepthCoversSupply,
                  Reserve!Depth
    <2> QED
      BY <2>1, <2>2 DEF Reserve!Next
  <1>4. Reserve!ReserveInv => Reserve!Solvent
    BY <1>1, CoverPaysForAll
    DEF Reserve!ReserveInv, Reserve!TypeOK, Reserve!DepthCoversSupply, Reserve!Depth,
        Reserve!Solvent, Reserve!PayoutFor
  <1> QED
    BY <1>2, <1>3, <1>4, PTL DEF Reserve!Spec

\* sellram's "this shouldn't happen" cannot happen: the stake covers the
\* return of every byte sold, whatever the history of trades and supplies.
THEOREM RamMarketSolvent == Spec => []WholeSupplySellable
  <1>1. Reserve!ReserveConstants
    BY QuoteIsPositive, RamMarketAssumption DEF Reserve!ReserveConstants
  <1>2. ReserveSpec => []Reserve!Solvent
    BY <1>1, ReserveStaysSolvent DEF ReserveSpec
  <1>3. MarketInv /\ Reserve!Solvent => WholeSupplySellable
    <2> SUFFICES ASSUME MarketInv, Reserve!Solvent PROVE WholeSupplySellable
      OBVIOUS
    <2>1. /\ max_ram_size \in Nat /\ total_ram_bytes_reserved \in Nat /\ base \in Nat
          /\ base = max_ram_size - total_ram_bytes_reserved
          /\ quote = InitialQuote + total_ram_stake
      BY DEF MarketInv, TypeOK, MarketMirrorsTotals
    <2>2. Reserve!PayoutFor(total_ram_bytes_reserved)
            = BancorOutput(base, quote, total_ram_bytes_reserved)
      BY <2>1 DEF Reserve!PayoutFor, BancorOutput
    <2> QED
      BY <2>2 DEF Reserve!Solvent, WholeSupplySellable
  <1> QED
    BY <1>2, <1>3, RamMarketIsReserve, MarketInit, MarketStep, PTL DEF Spec
-----------------------------------------------------------------------------
(* The power-up market (Powerup).                                          *)

CONSTANTS Resource, Frac, Configs, Days, MinFee, Fractions, Batches, Decay, MaxOrders, LastTime

VARIABLES configured, state, powerup_days, orders, powered, reserv, managed, limits, now

Power == INSTANCE Powerup

\* The sums and counts of that module are those of this one.
LEMMA PowerSums ==
  /\ \A f : Power!SumOf(f) = SumOf(f)
  /\ \A S : Power!Cardinality(S) = Cardinality(S)
  /\ \A S, i : Power!Rank(S, i) = Rank(S, i)
  <1>1. ASSUME NEW f
        PROVE  Power!SumOf(f) = SumOf(f)
    BY Zenon DEF Power!SumOf, Power!Units, Power!Cardinality, SumOf, Units, Cardinality
  <1>2. ASSUME NEW S
        PROVE  Power!Cardinality(S) = Cardinality(S)
    BY Zenon DEF Power!Cardinality, Cardinality
  <1>3. ASSUME NEW S, NEW i
        PROVE  Power!Rank(S, i) = Rank(S, i)
    BY Zenon DEF Power!Rank, Power!Cardinality, Rank, Cardinality
  <1> QED
    BY <1>1, <1>2, <1>3

\* A fee rounded up covers its numerator, and not a unit more.
LEMMA RoundedUp ==
  ASSUME NEW n \in Nat, NEW w \in Nat \ {0}
  PROVE  LET q == (n + w - 1) \div w
         IN  q \in Nat /\ n <= w * q /\ w * q <= n + w - 1
  <1> DEFINE m == n + w - 1
             q == m \div w
  <1>1. m \in Nat
    OBVIOUS
  <1>2. q \in Nat /\ w * q <= m /\ m < w * q + w
    BY <1>1, DivisionBounds
  <1>3. w * q \in Nat
    BY <1>2, ProductIsNat
  <1> HIDE DEF q
  <1>4. n <= w * q
    BY <1>2, <1>3 DEF m
  <1> QED
    BY <1>2, <1>4 DEF q, m

\* What all use from nothing up to x costs, times twice the square of the
\* weight: the price does not fall below that at the adjusted utilization.
Area(res, x) ==
  LET base_price == res.min_price * res.weight
      slope == res.max_price - res.min_price
      a == res.adjusted_utilization
  IN  IF x <= a THEN 2 * (base_price + slope * a) * x
      ELSE 2 * (base_price + slope * a) * a + 2 * base_price * (x - a) + slope * (x * x - a * a)

\* A market whose prices make a curve.
HasCurve(res) ==
  /\ res \in Power!Market
  /\ res.min_price <= res.max_price
  /\ res.utilization <= res.weight /\ res.adjusted_utilization <= res.weight

\* calc_powerup_fee integrates the price over the utilization that is bought.
LEMMA FeeIsArea ==
  ASSUME NEW res, res.min_price \in Nat, res.max_price \in Nat, res.weight \in Nat,
         res.utilization \in Nat, res.adjusted_utilization \in Nat,
         NEW m \in Nat \ {0}
  PROVE  Power!FeeNumerator(res, m) = Area(res, res.utilization + m) - Area(res, res.utilization)
  <1> DEFINE u == res.utilization
             v == u + m
             a == res.adjusted_utilization
             b == res.min_price * res.weight
             s == res.max_price - res.min_price
             h == 2 * (b + s * a)
             flat == IF u < a THEN IF m <= a - u THEN m ELSE a - u ELSE 0
             rise == IF flat > 0 THEN a ELSE u
  <1>1. /\ u \in Nat /\ a \in Nat /\ b \in Nat /\ s \in Int /\ h \in Int /\ v \in Nat /\ u < v
        /\ v - u = m
    OBVIOUS
  <1>2. Power!FeeNumerator(res, m) =
          h * flat + IF rise < v THEN 2 * res.min_price * res.weight * (v - rise)
                                        + s * (v * v - rise * rise)
                     ELSE 0
    BY DEF Power!FeeNumerator, Power!Smaller
  <1>3. 2 * res.min_price * res.weight = 2 * b
    OBVIOUS
  <1>4. /\ u <= a => Area(res, u) = h * u
        /\ u > a => Area(res, u) = h * a + 2 * b * (u - a) + s * (u * u - a * a)
        /\ v <= a => Area(res, v) = h * v
        /\ v > a => Area(res, v) = h * a + 2 * b * (v - a) + s * (v * v - a * a)
    BY <1>1 DEF Area
  <1>5. CASE v <= a
    <2>1. flat = m /\ rise = a
      BY <1>1, <1>5
    <2>2. Power!FeeNumerator(res, m) = h * m
      <3> HIDE DEF flat, rise, v, a, s, b, h
      <3>1. ~(rise < v)
        BY <1>1, <1>5, <2>1
      <3>2. h * m + 0 = h * m
        BY <1>1
      <3> QED
        BY <1>2, <2>1, <3>1, <3>2
    <2>3. Area(res, v) = h * v /\ Area(res, u) = h * u
      BY <1>1, <1>4, <1>5
    <2> HIDE DEF u, a, b, s, h
    <2>4. h * v - h * u = h * m
      BY <1>1
    <2> HIDE DEF v
    <2> QED
      BY <2>2, <2>3, <2>4 DEF v, u
  <1>6. CASE u < a /\ a < v
    <2>1. flat = a - u /\ rise = a
      BY <1>1, <1>6
    <2>2. Power!FeeNumerator(res, m) = h * (a - u) + (2 * b * (v - a) + s * (v * v - a * a))
      <3> HIDE DEF flat, rise, v, a, s, b, h
      <3> QED
        BY <1>2, <1>3, <1>6, <2>1
    <2>3. Area(res, v) = h * a + 2 * b * (v - a) + s * (v * v - a * a) /\ Area(res, u) = h * u
      BY <1>1, <1>4, <1>6
    <2> HIDE DEF u, a, b, s, h
    <2>4. h * (a - u) = h * a - h * u /\ h * a \in Int /\ h * u \in Int
      BY <1>1
    <2>5. 2 * b * (v - a) \in Int /\ s * (v * v - a * a) \in Int
      BY <1>1
    <2> HIDE DEF v
    <2> QED
      BY <2>2, <2>3, <2>4, <2>5 DEF v, u
  <1>7. CASE a <= u
    <2>1. flat = 0 /\ rise = u
      BY <1>1, <1>7
    <2>2. Power!FeeNumerator(res, m) = h * 0 + (2 * b * (v - u) + s * (v * v - u * u))
      <3> HIDE DEF flat, rise, v, a, s, b, h, u
      <3> QED
        BY <1>1, <1>2, <1>3, <1>7, <2>1
    <2>3. /\ Area(res, v) = h * a + 2 * b * (v - a) + s * (v * v - a * a)
          /\ Area(res, u) = h * a + 2 * b * (u - a) + s * (u * u - a * a)
      <3>1. u = a => h * u = h * a + 2 * b * (u - a) + s * (u * u - a * a)
        <4> HIDE DEF u, a, b, s, h, v
        <4>1. u = a => u - a = 0 /\ u * u - a * a = 0
          BY <1>1
        <4>2. 2 * b * 0 = 0 /\ s * 0 = 0 /\ h * a \in Int
          BY <1>1
        <4> QED
          BY <1>1, <4>1, <4>2
      <3> HIDE DEF u, a, b, s, h, v
      <3> QED
        BY <1>1, <1>4, <1>7, <3>1
    <2> HIDE DEF u, a, b, s, h
    <2>4. /\ 2 * b * (v - a) - 2 * b * (u - a) = 2 * b * (v - u)
          /\ s * (v * v - a * a) - s * (u * u - a * a) = s * (v * v - u * u)
          /\ h * 0 = 0 /\ h * a \in Int
      BY <1>1
    <2>5. /\ 2 * b * (v - a) \in Int /\ 2 * b * (u - a) \in Int /\ 2 * b * (v - u) \in Int
          /\ s * (v * v - a * a) \in Int /\ s * (u * u - a * a) \in Int /\ s * (v * v - u * u) \in Int
      BY <1>1
    <2> HIDE DEF v
    <2> QED
      BY <2>2, <2>3, <2>4, <2>5 DEF v, u
  <1> QED
    BY <1>1, <1>5, <1>6, <1>7

\* Use between x and y costs at least the least price and at most the highest.
LEMMA AreaBounds ==
  ASSUME NEW res, res.min_price \in Nat, res.max_price \in Nat, res.min_price <= res.max_price,
         res.weight \in Nat, res.adjusted_utilization \in Nat,
         res.adjusted_utilization <= res.weight,
         NEW x \in Nat, NEW y \in Nat, x <= y, y <= res.weight
  PROVE  /\ Area(res, x) \in Nat /\ Area(res, y) \in Nat
         /\ 2 * (res.min_price * res.weight) * (y - x) <= Area(res, y) - Area(res, x)
         /\ Area(res, y) - Area(res, x) <= 2 * (res.max_price * res.weight) * (y - x)
  <1> DEFINE a == res.adjusted_utilization
             w == res.weight
             b == res.min_price * w
             t == res.max_price * w
             s == res.max_price - res.min_price
             h == 2 * (b + s * a)
  <1>1. /\ a \in Nat /\ w \in Nat /\ s \in Nat /\ a <= w
        /\ res.min_price \in Nat /\ res.max_price \in Nat /\ res.max_price = res.min_price + s
    OBVIOUS
  <1>2. b \in Nat /\ t \in Nat /\ t = b + s * w /\ s * a \in Nat /\ s * w \in Nat /\ s * a <= s * w
    <2>1. b \in Nat /\ t \in Nat /\ s * a \in Nat /\ s * w \in Nat
      BY <1>1, ProductIsNat
    <2>2. s * a <= s * w
      <3> HIDE DEF s, a, w
      <3> QED
        BY <1>1, ProductMonotonic
    <2>3. t = b + s * w
      OBVIOUS
    <2> QED
      BY <2>1, <2>2, <2>3
  <1>3. h \in Nat /\ 2 * b <= h /\ h <= 2 * t
    BY <1>2
  <1>4. \A z \in Nat :
          /\ z <= a => Area(res, z) = h * z
          /\ z > a => Area(res, z) = h * a + 2 * b * (z - a) + s * (z * z - a * a)
    BY <1>1 DEF Area
  <1> HIDE DEF a, w, b, t, s, h
  <1>5. ASSUME NEW n \in Nat
        PROVE  /\ h * n \in Nat /\ 2 * b * n \in Nat /\ 2 * t * n \in Nat
               /\ 2 * b * n <= h * n /\ h * n <= 2 * t * n
    <2>1. 2 * b \in Nat /\ 2 * t \in Nat
      BY <1>2
    <2>2. n * (2 * b) <= n * h /\ n * h <= n * (2 * t)
      BY <1>3, <2>1, ProductMonotonic
    <2>3. n * (2 * b) = 2 * b * n /\ n * h = h * n /\ n * (2 * t) = 2 * t * n
      BY <1>2, <1>3
    <2> QED
      BY <1>3, <2>1, <2>2, <2>3, ProductIsNat
  \* Up to the adjusted utilization.
  <1>6. ASSUME NEW u \in Nat, NEW v \in Nat, u <= v, v <= a
        PROVE  /\ Area(res, u) \in Nat /\ Area(res, v) \in Nat
               /\ 2 * b * (v - u) <= Area(res, v) - Area(res, u)
               /\ Area(res, v) - Area(res, u) <= 2 * t * (v - u)
    <2>1. Area(res, u) = h * u /\ Area(res, v) = h * v
      BY <1>1, <1>4, <1>6
    <2>2. h * v - h * u = h * (v - u) /\ v - u \in Nat
      BY <1>3, <1>6
    <2>3. h * u \in Nat /\ h * v \in Nat
      BY <1>5
    <2>4. 2 * b * (v - u) <= h * (v - u) /\ h * (v - u) <= 2 * t * (v - u)
      BY <1>5, <2>2
    <2> QED
      BY <2>1, <2>2, <2>3, <2>4
  \* From there on.
  <1>7. ASSUME NEW u \in Nat, NEW v \in Nat, a <= u, u <= v, v <= w
        PROVE  /\ Area(res, u) \in Nat /\ Area(res, v) \in Nat
               /\ 2 * b * (v - u) <= Area(res, v) - Area(res, u)
               /\ Area(res, v) - Area(res, u) <= 2 * t * (v - u)
    <2>1. \A z \in Nat : a <= z =>
            Area(res, z) = h * a + 2 * b * (z - a) + s * (z * z - a * a)
      <3> TAKE z \in Nat
      <3>1. CASE z > a
        BY <1>4, <3>1
      <3>2. CASE z = a
        <4>1. z - a = 0 /\ z * z - a * a = 0
          BY <1>1, <3>2
        <4>2. 2 * b * 0 = 0 /\ s * 0 = 0 /\ h * a \in Nat /\ h * z = h * a
          BY <1>1, <1>2, <1>3, <3>2
        <4>3. Area(res, z) = h * a
          BY <1>1, <1>4, <3>2
        <4>4. h * a + 2 * b * (z - a) + s * (z * z - a * a) = h * a + 2 * b * 0 + s * 0
          BY <4>1
        <4> QED
          BY <4>2, <4>3, <4>4
      <3> QED
        BY <1>1, <3>1, <3>2
    <2> DEFINE d == v - u
               g == v + u
    <2>2. d \in Nat /\ g \in Nat /\ g <= 2 * w
      BY <1>1, <1>7
    <2>3. v * v - u * u = d * g
      OBVIOUS
    <2>4. d * g \in Nat /\ s * (d * g) \in Nat
      BY <1>1, <2>2, ProductIsNat
    <2>5. s * (d * g) <= 2 * (s * w) * d
      <3>1. d * g <= d * (2 * w)
        BY <1>1, <2>2, ProductMonotonic
      <3>2. d * (2 * w) \in Nat
        BY <1>1, <2>2
      <3> HIDE DEF d, g
      <3>3. s * (d * g) <= s * (d * (2 * w))
        BY <1>1, <2>4, <3>1, <3>2, ProductMonotonic
      <3>4. s * (d * (2 * w)) = 2 * (s * w) * d
        BY <1>1, <2>2
      <3> QED
        BY <3>3, <3>4
    <2>6. Area(res, v) - Area(res, u) = 2 * b * d + s * (d * g)
      <3>1. /\ Area(res, u) = h * a + 2 * b * (u - a) + s * (u * u - a * a)
            /\ Area(res, v) = h * a + 2 * b * (v - a) + s * (v * v - a * a)
        BY <1>1, <1>7, <2>1
      <3>2. 2 * b * (v - a) - 2 * b * (u - a) = 2 * b * d
        BY <1>1, <1>2
      <3>3. s * (v * v - a * a) - s * (u * u - a * a) = s * (d * g)
        <4>1. s * (v * v - a * a) - s * (u * u - a * a) = s * (v * v - u * u)
          BY <1>1
        <4> QED
          BY <2>3, <4>1
      <3>4. /\ h * a \in Nat /\ 2 * b * (v - a) \in Int /\ 2 * b * (u - a) \in Int
            /\ s * (v * v - a * a) \in Int /\ s * (u * u - a * a) \in Int
        BY <1>1, <1>2, <1>3
      <3> HIDE DEF d, g
      <3> QED
        BY <3>1, <3>2, <3>3, <3>4
    <2>7. 2 * b * d \in Nat /\ 2 * (s * w) * d \in Nat /\ 2 * t * d = 2 * b * d + 2 * (s * w) * d
      BY <1>2, <2>2
    <2>8. Area(res, u) \in Nat
      <3>1. Area(res, u) = h * a + 2 * b * (u - a) + s * (u * u - a * a)
        BY <1>7, <2>1
      <3>2. u - a \in Nat /\ u * u - a * a = (u - a) * (u + a)
        BY <1>1, <1>7
      <3>3. (u - a) * (u + a) \in Nat
        BY <1>1, <3>2, ProductIsNat
      <3>4. s * (u * u - a * a) \in Nat /\ 2 * b * (u - a) \in Nat /\ h * a \in Nat
        BY <1>1, <1>3, <1>5, <3>2, <3>3, ProductIsNat
      <3> QED
        BY <3>1, <3>4
    <2>9. Area(res, v) \in Nat
      <3>1. Area(res, v) = h * a + 2 * b * (v - a) + s * (v * v - a * a)
        BY <1>1, <1>7, <2>1
      <3>2. v - a \in Nat /\ v * v - a * a = (v - a) * (v + a)
        BY <1>1, <1>7
      <3>3. (v - a) * (v + a) \in Nat
        BY <1>1, <3>2, ProductIsNat
      <3>4. s * (v * v - a * a) \in Nat /\ 2 * b * (v - a) \in Nat /\ h * a \in Nat
        BY <1>1, <1>3, <1>5, <3>2, <3>3, ProductIsNat
      <3> QED
        BY <3>1, <3>4
    <2> HIDE DEF d, g
    <2> QED
      BY <2>4, <2>5, <2>6, <2>7, <2>8, <2>9 DEF d
  <1>8. CASE y <= a
    BY <1>6, <1>8 DEF b, t, w
  <1>9. CASE a <= x
    BY <1>7, <1>9 DEF b, t, w
  <1>10. CASE x < a /\ a < y
    <2>1. /\ Area(res, x) \in Nat /\ Area(res, a) \in Nat
          /\ 2 * b * (a - x) <= Area(res, a) - Area(res, x)
          /\ Area(res, a) - Area(res, x) <= 2 * t * (a - x)
      BY <1>1, <1>6, <1>10
    <2>2. /\ Area(res, y) \in Nat
          /\ 2 * b * (y - a) <= Area(res, y) - Area(res, a)
          /\ Area(res, y) - Area(res, a) <= 2 * t * (y - a)
      BY <1>1, <1>7, <1>10 DEF w
    <2>3. /\ 2 * b * (a - x) + 2 * b * (y - a) = 2 * b * (y - x)
          /\ 2 * t * (a - x) + 2 * t * (y - a) = 2 * t * (y - x)
          /\ 2 * b * (a - x) \in Int /\ 2 * b * (y - a) \in Int
          /\ 2 * t * (a - x) \in Int /\ 2 * t * (y - a) \in Int
      BY <1>1, <1>2
    <2>4. /\ 2 * b * (y - x) <= Area(res, y) - Area(res, x)
          /\ Area(res, y) - Area(res, x) <= 2 * t * (y - x)
      BY <2>1, <2>2, <2>3
    <2> QED
      BY <2>1, <2>2, <2>4 DEF b, t, w
  <1> QED
    BY <1>1, <1>8, <1>9, <1>10

\* The fee of a purchase, and the cost it is rounded up from.
LEMMA FeeOfArea ==
  ASSUME NEW res, HasCurve(res), res.weight > 0, NEW m \in Nat \ {0},
         res.utilization + m <= res.weight
  PROVE  LET n == Area(res, res.utilization + m) - Area(res, res.utilization)
             w == 2 * res.weight * res.weight
         IN  /\ n \in Nat /\ w \in Nat \ {0}
             /\ Power!Fee(res, m) \in Nat
             /\ n <= w * Power!Fee(res, m) /\ w * Power!Fee(res, m) <= n + w - 1
             /\ 2 * (res.min_price * res.weight) * m <= n
             /\ n <= 2 * (res.max_price * res.weight) * m
  <1> DEFINE u == res.utilization
             n == Area(res, u + m) - Area(res, u)
             w == 2 * res.weight * res.weight
  <1>1. /\ res.min_price \in Nat /\ res.max_price \in Nat /\ res.min_price <= res.max_price
        /\ res.weight \in Nat /\ u \in Nat /\ res.adjusted_utilization \in Nat
        /\ res.adjusted_utilization <= res.weight
    BY DEF HasCurve, Power!Market
  <1>2. u + m \in Nat /\ u <= u + m /\ u + m - u = m /\ u + m <= res.weight
    BY <1>1
  <1>3. /\ Area(res, u) \in Nat /\ Area(res, u + m) \in Nat
        /\ 2 * (res.min_price * res.weight) * (u + m - u) <= n
        /\ n <= 2 * (res.max_price * res.weight) * (u + m - u)
    <2> HIDE DEF u
    <2> QED
      BY <1>1, <1>2, AreaBounds
  <1>4. /\ 2 * (res.min_price * res.weight) * m <= n
        /\ n <= 2 * (res.max_price * res.weight) * m
    <2> HIDE DEF u, n
    <2> QED
      BY <1>2, <1>3
  <1>5. n \in Nat
    <2>1. 2 * (res.min_price * res.weight) * m \in Nat
      BY <1>1
    <2> HIDE DEF u
    <2> QED
      BY <1>3, <1>4, <2>1
  <1>6. w \in Nat \ {0}
    <2>1. res.weight * res.weight \in Nat /\ res.weight * res.weight # 0
      BY <1>1
    <2>2. w = 2 * (res.weight * res.weight)
      BY <1>1
    <2> QED
      BY <2>1, <2>2
  <1>7. Power!FeeNumerator(res, m) = n
    BY <1>1, FeeIsArea
  <1>8. Power!Fee(res, m) = (n + w - 1) \div w
    BY <1>7 DEF Power!Fee
  <1> HIDE DEF n, w
  <1>9. LET q == (n + w - 1) \div w
        IN  q \in Nat /\ n <= w * q /\ w * q <= n + w - 1
    BY <1>5, <1>6, RoundedUp
  <1>10. /\ Power!Fee(res, m) \in Nat
         /\ n <= w * Power!Fee(res, m) /\ w * Power!Fee(res, m) <= n + w - 1
    BY <1>8, <1>9
  <1> QED
    BY <1>4, <1>5, <1>6, <1>10 DEF n, w

\* Two purchases cost at least what one of both amounts does, and each costs
\* the prices between the least and the highest.
LEMMA FeesOfMarket ==
  ASSUME NEW res, HasCurve(res), res.weight > 0
  PROVE  LET free == res.weight - res.utilization
         IN  /\ \A m \in 1 .. free, n \in 1 .. free :
                  m + n <= free =>
                    Power!Fee(res, m) + Power!Fee([res EXCEPT !.utilization = @ + m], n)
                      >= Power!Fee(res, m + n)
             /\ \A m \in 1 .. free :
                  /\ Power!Fee(res, m) * res.weight >= res.min_price * m
                  /\ (Power!Fee(res, m) - 1) * res.weight < res.max_price * m
  <1> DEFINE free == res.weight - res.utilization
             u == res.utilization
             w == 2 * res.weight * res.weight
  <1>1. /\ res.min_price \in Nat /\ res.max_price \in Nat /\ res.min_price <= res.max_price
        /\ res.weight \in Nat \ {0} /\ u \in Nat /\ res.adjusted_utilization \in Nat
        /\ res.adjusted_utilization <= res.weight /\ u <= res.weight /\ free \in Nat
    BY DEF HasCurve, Power!Market
  <1>2. ASSUME NEW m \in 1 .. free, NEW n \in 1 .. free, m + n <= free
        PROVE  Power!Fee(res, m) + Power!Fee([res EXCEPT !.utilization = @ + m], n)
                 >= Power!Fee(res, m + n)
    <2> DEFINE after == [res EXCEPT !.utilization = @ + m]
               n1 == Area(res, u + m) - Area(res, u)
               n2 == Area(res, u + m + n) - Area(res, u + m)
               n3 == Area(res, u + (m + n)) - Area(res, u)
    <2>1. /\ m \in Nat \ {0} /\ n \in Nat \ {0} /\ m + n \in Nat \ {0}
          /\ u + m <= res.weight /\ u + m + n <= res.weight /\ u + (m + n) <= res.weight
          /\ u + m \in Nat /\ u + m + n = u + (m + n)
      BY <1>1, <1>2
    <2>2. /\ after.min_price = res.min_price /\ after.max_price = res.max_price
          /\ after.weight = res.weight /\ after.utilization = u + m
          /\ after.adjusted_utilization = res.adjusted_utilization
      BY DEF HasCurve, Power!Market
    <2>3. after \in Power!Market
      BY <2>1 DEF HasCurve, Power!Market
    <2>4. HasCurve(after)
      <3> HIDE DEF after
      <3> QED
        BY <1>1, <2>1, <2>2, <2>3 DEF HasCurve
    <2>5. \A x : Area(after, x) = Area(res, x)
      <3> HIDE DEF after
      <3> QED
        BY <2>2 DEF Area
    <2>6. /\ n1 \in Nat /\ w \in Nat \ {0} /\ Power!Fee(res, m) \in Nat
          /\ n1 <= w * Power!Fee(res, m)
      <3> HIDE DEF w, n1
      <3> QED
        BY <1>1, <2>1, FeeOfArea DEF w, n1
    <2>7. /\ n3 \in Nat /\ Power!Fee(res, m + n) \in Nat
          /\ w * Power!Fee(res, m + n) <= n3 + w - 1
      <3> HIDE DEF w, n3
      <3> QED
        BY <1>1, <2>1, FeeOfArea DEF w, n3
    <2>8. /\ n2 \in Nat /\ Power!Fee(after, n) \in Nat
          /\ n2 <= w * Power!Fee(after, n)
      <3> HIDE DEF after
      <3>1. after.weight > 0 /\ after.utilization + n <= after.weight
        BY <1>1, <2>1, <2>2
      <3>2. LET k == Area(after, after.utilization + n) - Area(after, after.utilization)
                v == 2 * after.weight * after.weight
            IN  /\ k \in Nat /\ Power!Fee(after, n) \in Nat
                /\ k <= v * Power!Fee(after, n)
        BY <2>1, <2>4, <3>1, FeeOfArea
      <3> QED
        BY <2>2, <2>5, <3>2
    <2>9. n1 + n2 = n3
      <3>1. /\ Area(res, u) \in Nat /\ Area(res, u + m) \in Nat /\ Area(res, u + (m + n)) \in Nat
        <4>1. u <= u + m /\ u + m <= u + (m + n) /\ u + (m + n) \in Nat
          BY <1>1, <2>1
        <4> HIDE DEF u
        <4> QED
          BY <1>1, <2>1, <4>1, AreaBounds
      <3>2. Area(res, u + m + n) = Area(res, u + (m + n))
        BY <2>1
      <3> HIDE DEF u
      <3> QED
        BY <3>1, <3>2
    <2> DEFINE f == Power!Fee(res, m)
               g == Power!Fee(after, n)
               h == Power!Fee(res, m + n)
    <2>10. f \in Nat /\ g \in Nat /\ h \in Nat /\ w \in Nat \ {0} /\ w * h < w * (f + g) + w
      <3>1. w * (f + g) = w * f + w * g
        BY <2>6, <2>8
      <3>2. w * f \in Nat /\ w * g \in Nat /\ w * h \in Nat
        BY <2>6, <2>7, <2>8
      <3> HIDE DEF w, f, g, h, n1, n2, n3
      <3>3. w * h < w * (f + g) + w
        BY <2>6, <2>7, <2>8, <2>9, <3>1, <3>2 DEF f, g, h
      <3> QED
        BY <2>6, <2>7, <2>8, <3>3 DEF f, g, h
    <2>11. h <= f + g
      <3> HIDE DEF w, f, g, h
      <3>1. SUFFICES ASSUME h >= f + g + 1
                     PROVE  FALSE
        BY <2>10
      <3>2. w * (f + g + 1) <= w * h
        BY <2>10, <3>1, ProductMonotonic
      <3>3. w * (f + g + 1) = w * (f + g) + w
        BY <2>10
      <3> QED
        BY <2>10, <3>2, <3>3
    <2> QED
      BY <2>10, <2>11
  <1>3. ASSUME NEW m \in 1 .. free
        PROVE  /\ Power!Fee(res, m) * res.weight >= res.min_price * m
               /\ (Power!Fee(res, m) - 1) * res.weight < res.max_price * m
    <2> DEFINE n == Area(res, u + m) - Area(res, u)
               f == Power!Fee(res, m)
               x == res.weight
               p == res.min_price
               t == res.max_price
    <2>1. m \in Nat \ {0} /\ u + m <= res.weight
      BY <1>1, <1>3
    <2>2. /\ n \in Nat /\ w \in Nat \ {0} /\ f \in Nat
          /\ n <= w * f /\ w * f <= n + w - 1
          /\ 2 * (p * x) * m <= n /\ n <= 2 * (t * x) * m
      <3> HIDE DEF w, n
      <3> QED
        BY <1>1, <2>1, FeeOfArea DEF w, n
    <2>3. p \in Nat /\ t \in Nat /\ x \in Nat \ {0} /\ w = 2 * x * x
      BY <1>1
    <2> DEFINE k == 2 * x
    <2>4. k \in Nat \ {0}
      BY <2>3
    <2> HIDE DEF n, f, x, p, t, w
    <2>5. p * m <= f * x
      <3>1. k * (p * m) = 2 * (p * x) * m /\ k * (f * x) = w * f
        BY <2>1, <2>2, <2>3
      <3>2. p * m \in Nat /\ f * x \in Nat /\ w * f \in Nat
        BY <2>1, <2>2, <2>3
      <3>3. k * (p * m) <= k * (f * x)
        BY <2>1, <2>2, <2>3, <3>1, <3>2
      <3> HIDE DEF k
      <3> QED
        BY <2>4, <3>2, <3>3, FactorCancels
    <2>6. (f - 1) * x < t * m
      <3>1. k * (t * m) = 2 * (t * x) * m /\ k * ((f - 1) * x) = w * f - w
        BY <2>1, <2>2, <2>3
      <3>2. t * m \in Nat /\ (f - 1) * x \in Int /\ w * f \in Nat
        BY <2>1, <2>2, <2>3
      <3>3. k * ((f - 1) * x) < k * (t * m)
        BY <2>1, <2>2, <2>3, <3>1, <3>2
      <3>4. SUFFICES ASSUME t * m <= (f - 1) * x
                     PROVE  FALSE
        BY <3>2
      <3>5. (f - 1) * x \in Nat
        BY <3>2, <3>4
      <3> HIDE DEF k
      <3>6. k * (t * m) <= k * ((f - 1) * x)
        BY <2>4, <3>2, <3>4, <3>5, ProductMonotonic
      <3>7. k * (t * m) \in Nat /\ k * ((f - 1) * x) \in Nat
        BY <2>4, <3>2, <3>5, ProductIsNat
      <3> QED
        BY <3>3, <3>6, <3>7
    <2>7. f * x \in Nat /\ p * m \in Nat
      BY <2>1, <2>2, <2>3
    <2> QED
      BY <2>5, <2>6, <2>7 DEF f, x, p, t
  <1> QED
    BY <1>2, <1>3

-----------------------------------------------------------------------------
(* The weight of a market.                                                 *)

\* The weight ratio at a time.
RatioAt(res, time) ==
  IF time >= res.target_timestamp THEN res.target_weight_ratio
  ELSE res.initial_weight_ratio
         - ((res.initial_weight_ratio - res.target_weight_ratio) * (time - res.initial_timestamp))
             \div (res.target_timestamp - res.initial_timestamp)

\* A market as it may be configured and as it stands at any later time.
Sound(res) ==
  /\ HasCurve(res)
  /\ res.target_weight_ratio <= res.initial_weight_ratio
  /\ res.initial_timestamp <= now
  /\ res.utilization_timestamp <= now

\* A market in use: its weight is that of its ratio, and the ratio can only
\* have come down since the weight was last brought up to date.
InUse(res) ==
  /\ res.weight_ratio # 0
  /\ RatioAt(res, now) <= res.weight_ratio
  /\ res.weight = (res.assumed_stake_weight * Frac) \div res.weight_ratio - res.assumed_stake_weight

\* The constants that the proofs use.
LEMMA PowerTypes ==
  ASSUME Power!PowerupConstants
  PROVE  /\ Frac \in Nat \ {0} /\ IsFiniteSet(Account) /\ IsFiniteSet(Resource)
         /\ LastTime \in Nat /\ Days \subseteq Nat \ {0} /\ Fractions \subseteq 0 .. Frac
         /\ \A seconds \in 0 .. LastTime : Decay[seconds] \in Nat \ {0}
         /\ \A c \in Configs :
              /\ c.current_weight_ratio \in 0 .. Frac
              /\ c.target_weight_ratio \in 1 .. Frac
              /\ c.assumed_stake_weight \in Nat \ {0}
              /\ c.target_timestamp \in Nat
              /\ c.max_price \in Nat \ {0} /\ c.min_price \in Nat /\ c.min_price <= c.max_price
  <1>1. /\ Frac \in Nat \ {0} /\ IsFiniteSet(Account) /\ IsFiniteSet(Resource)
        /\ LastTime \in Nat /\ Days \subseteq Nat \ {0} /\ Fractions \subseteq 0 .. Frac
        /\ \A seconds \in 0 .. LastTime : Decay[seconds] \in Nat \ {0}
    BY Zenon DEF Power!PowerupConstants, Power!IsFiniteSet, IsFiniteSet
  <1>2. ASSUME NEW c \in Configs
        PROVE  /\ c.current_weight_ratio \in 0 .. Frac
               /\ c.target_weight_ratio \in 1 .. Frac
               /\ c.assumed_stake_weight \in Nat \ {0}
               /\ c.target_timestamp \in Nat
               /\ c.max_price \in Nat \ {0} /\ c.min_price \in 0 .. c.max_price
    BY <1>2, Zenon DEF Power!PowerupConstants
  <1>3. ASSUME NEW c \in Configs
        PROVE  c.min_price \in Nat /\ c.min_price <= c.max_price
    BY <1>2
  <1> QED
    BY <1>1, <1>2, <1>3

\* The ratio lies between its initial and its target value, and comes down.
LEMMA RatioComesDown ==
  ASSUME NEW res, res.initial_weight_ratio \in Nat, res.target_weight_ratio \in Nat,
         res.target_weight_ratio <= res.initial_weight_ratio,
         res.initial_timestamp \in Nat, res.target_timestamp \in Nat,
         NEW s \in Nat, NEW t \in Nat, res.initial_timestamp <= s, s <= t
  PROVE  /\ RatioAt(res, s) \in res.target_weight_ratio .. res.initial_weight_ratio
         /\ RatioAt(res, t) \in res.target_weight_ratio .. res.initial_weight_ratio
         /\ RatioAt(res, t) <= RatioAt(res, s)
  <1> DEFINE high == res.initial_weight_ratio
             low == res.target_weight_ratio
             d == high - low
             from == res.initial_timestamp
             to == res.target_timestamp
  <1>1. /\ high \in Nat /\ low \in Nat /\ d \in Nat /\ low <= high /\ from \in Nat /\ to \in Nat
        /\ low = high - d
    OBVIOUS
  <1>2. \A x \in Nat :
          /\ x >= to => RatioAt(res, x) = low
          /\ x < to => RatioAt(res, x) = high - (d * (x - from)) \div (to - from)
    BY <1>1 DEF RatioAt
  <1> HIDE DEF high, low, d, from, to
  <1>3. ASSUME NEW x \in Nat, from <= x
        PROVE  RatioAt(res, x) \in low .. high
    <2>1. CASE x >= to
      BY <1>1, <1>2, <2>1
    <2>2. CASE x < to
      <3> DEFINE n == x - from
                 l == to - from
      <3>1. n \in Nat /\ l \in Nat \ {0} /\ n <= l
        BY <1>1, <1>3, <2>2
      <3> HIDE DEF n, l
      <3>2. (d * n) \div l \in Nat /\ (d * n) \div l <= d
        BY <1>1, <3>1, PartAtMost
      <3>3. RatioAt(res, x) = high - (d * n) \div l
        BY <1>2, <2>2 DEF n, l
      <3> QED
        BY <1>1, <3>2, <3>3
    <2> QED
      BY <1>1, <2>1, <2>2
  <1>4. RatioAt(res, s) \in low .. high /\ RatioAt(res, t) \in low .. high
    <2>1. from <= s /\ from <= t
      BY <1>1 DEF from
    <2> QED
      BY <1>3, <2>1
  <1>5. RatioAt(res, t) <= RatioAt(res, s)
    <2>1. CASE t >= to
      BY <1>1, <1>2, <1>4, <2>1
    <2>2. CASE t < to
      <3> DEFINE m == d * (s - from)
                 n == d * (t - from)
                 l == to - from
      <3>1. s - from \in Nat /\ t - from \in Nat /\ s - from <= t - from /\ l \in Nat \ {0}
        BY <1>1, <2>2 DEF from
      <3>2. m \in Nat /\ n \in Nat /\ m <= n
        BY <1>1, <3>1, ProductIsNat, ProductMonotonic
      <3>3. RatioAt(res, s) = high - m \div l /\ RatioAt(res, t) = high - n \div l
        BY <1>1, <1>2, <2>2
      <3> HIDE DEF m, n, l
      <3>4. m \div l <= n \div l /\ m \div l \in Nat /\ n \div l \in Nat
        BY <3>1, <3>2, DivisionMonotonic, DivisionBounds
      <3> QED
        BY <1>1, <3>3, <3>4
    <2> QED
      BY <1>1, <2>1, <2>2
  <1> QED
    BY <1>4, <1>5 DEF low, high

\* The weight of a ratio, and that it grows as the ratio comes down.
LEMMA WeightGrows ==
  ASSUME NEW stake \in Nat, NEW frac \in Nat, NEW p \in Nat \ {0}, NEW q \in Nat \ {0},
         p <= q, q <= frac
  PROVE  /\ (stake * frac) \div q - stake \in Nat
         /\ (stake * frac) \div p - stake \in Nat
         /\ (stake * frac) \div q - stake <= (stake * frac) \div p - stake
  <1> DEFINE n == stake * frac
             x == n \div q
             y == n \div p
  <1>1. n \in Nat
    BY ProductIsNat
  <1>2. /\ x \in Nat /\ q * x <= n /\ y \in Nat
    BY <1>1, DivisionBounds
  <1>3. stake <= x
    <2>1. q * stake <= n
      <3>1. stake * q <= stake * frac
        BY ProductMonotonic
      <3> QED
        BY <3>1
    <2> HIDE DEF n
    <2> QED
      BY <1>1, <2>1, QuotientAtLeast
  <1>4. x <= y
    <2>1. p * x <= n
      <3> HIDE DEF x, n
      <3>1. x * p <= x * q
        BY <1>2, ProductMonotonic
      <3>2. x * p = p * x /\ x * q = q * x /\ p * x \in Nat /\ q * x \in Nat
        BY <1>2
      <3> QED
        BY <1>1, <1>2, <3>1, <3>2
    <2> HIDE DEF n
    <2> QED
      BY <1>1, <1>2, <2>1, QuotientAtLeast
  <1> HIDE DEF x, y
  <1> QED
    BY <1>2, <1>3, <1>4 DEF x, y, n

\* update_weight: the weight becomes that of the ratio at this moment, and
\* nothing else changes.
LEMMA WeightIsUpdated ==
  ASSUME Power!PowerupConstants, now \in Nat, NEW res \in Power!Market,
         res.target_weight_ratio <= res.initial_weight_ratio,
         res.initial_timestamp <= now
  PROVE  LET new == Power!UpdateWeight(res)
         IN  /\ new \in Power!Market
             /\ new = [res EXCEPT !.weight_ratio = RatioAt(res, now), !.weight = new.weight]
             /\ InUse(new)
  <1> DEFINE ratio == RatioAt(res, now)
             stake == res.assumed_stake_weight
             weight == (stake * Frac) \div ratio - stake
             new == [res EXCEPT !.weight_ratio = ratio, !.weight = weight]
  <1>1. /\ res.initial_weight_ratio \in 1 .. Frac /\ res.target_weight_ratio \in 1 .. Frac
        /\ res.initial_timestamp \in Nat /\ res.target_timestamp \in Nat
        /\ stake \in Nat
    BY DEF Power!Market
  <1>2. Frac \in Nat \ {0}
    BY PowerTypes
  <1>3. ratio \in res.target_weight_ratio .. res.initial_weight_ratio
    <2> HIDE DEF ratio
    <2>1. res.initial_weight_ratio \in Nat /\ res.target_weight_ratio \in Nat
      BY <1>1, <1>2
    <2> QED
      BY <1>1, <2>1, RatioComesDown DEF ratio
  <1> HIDE DEF ratio
  <1>4. ratio \in Nat \ {0} /\ ratio <= Frac
    BY <1>1, <1>2, <1>3
  <1>5. weight \in Nat
    <2>1. stake \in Nat /\ Frac \in Nat /\ ratio \in Nat \ {0} /\ ratio <= ratio /\ ratio <= Frac
      BY <1>1, <1>2, <1>4
    <2> HIDE DEF stake
    <2> QED
      BY ONLY <2>1, WeightGrows
  <1>6. Power!UpdateWeight(res) = new
    BY DEF Power!UpdateWeight, Power!WeightRatio, RatioAt, ratio
  <1> HIDE DEF weight
  <1>10. ratio \in 0 .. Frac
    BY <1>2, <1>4
  <1>11. new \in Power!Market
    BY <1>10, <1>5 DEF Power!Market
  <1>7. /\ new.weight_ratio = ratio /\ new.weight = weight
        /\ new.assumed_stake_weight = stake
        /\ new.initial_weight_ratio = res.initial_weight_ratio
        /\ new.target_weight_ratio = res.target_weight_ratio
        /\ new.initial_timestamp = res.initial_timestamp
        /\ new.target_timestamp = res.target_timestamp
    BY DEF Power!Market
  <1> HIDE DEF new
  <1>8. RatioAt(new, now) = ratio
    BY <1>7 DEF RatioAt, ratio
  <1>9. InUse(new)
    BY <1>4, <1>7, <1>8 DEF InUse, weight
  <1> QED
    BY <1>6, <1>7, <1>11, <1>9 DEF new, ratio

\* The weight of a market in use does not shrink as it is brought up to date.
LEMMA WeightOnlyGrows ==
  ASSUME Power!PowerupConstants, now \in Nat, NEW res, Sound(res), InUse(res)
  PROVE  LET new == Power!UpdateWeight(res)
         IN  /\ Sound(new) /\ InUse(new)
             /\ res.weight <= new.weight
             /\ new.utilization = res.utilization
             /\ new.adjusted_utilization = res.adjusted_utilization
             /\ new.utilization_timestamp = res.utilization_timestamp
             /\ new.initial_timestamp = res.initial_timestamp
  <1> DEFINE new == Power!UpdateWeight(res)
             ratio == RatioAt(res, now)
             stake == res.assumed_stake_weight
  <1>1. /\ res \in Power!Market /\ res.target_weight_ratio <= res.initial_weight_ratio
        /\ res.initial_timestamp <= now /\ res.utilization_timestamp <= now
    BY DEF Sound, HasCurve
  <1>2. /\ new \in Power!Market
        /\ new = [res EXCEPT !.weight_ratio = RatioAt(res, now), !.weight = new.weight]
        /\ InUse(new)
    BY <1>1, WeightIsUpdated
  <1> HIDE DEF new
  <1>3. /\ new.weight_ratio = ratio
        /\ new.assumed_stake_weight = stake
        /\ new.utilization = res.utilization
        /\ new.adjusted_utilization = res.adjusted_utilization
        /\ new.utilization_timestamp = res.utilization_timestamp
        /\ new.initial_timestamp = res.initial_timestamp
        /\ new.target_weight_ratio = res.target_weight_ratio
        /\ new.initial_weight_ratio = res.initial_weight_ratio
        /\ new.min_price = res.min_price /\ new.max_price = res.max_price
    BY <1>1, <1>2 DEF Power!Market
  <1>4. /\ new.weight = (stake * Frac) \div ratio - stake
        /\ ratio # 0 /\ ratio \in Nat
    BY <1>2, <1>3 DEF InUse, Power!Market
  <1>5. /\ res.weight = (stake * Frac) \div res.weight_ratio - stake
        /\ res.weight_ratio # 0 /\ ratio <= res.weight_ratio
        /\ res.weight_ratio \in 0 .. Frac /\ stake \in Nat /\ Frac \in Nat
    BY <1>1, PowerTypes DEF InUse, Power!Market
  <1> HIDE DEF ratio, stake
  <1>6. res.weight <= new.weight
    <2> DEFINE k == res.weight_ratio
    <2>1. ratio \in Nat \ {0} /\ k \in Nat \ {0} /\ k <= Frac /\ ratio <= k
          /\ stake \in Nat /\ Frac \in Nat
      BY <1>4, <1>5
    <2> HIDE DEF k
    <2>2. (stake * Frac) \div k - stake <= (stake * Frac) \div ratio - stake
      BY ONLY <2>1, WeightGrows
    <2> QED
      BY <1>4, <1>5, <2>2 DEF k
  <1>7. Sound(new)
    BY <1>1, <1>2, <1>3, <1>6 DEF Sound, HasCurve, Power!Market
  <1> QED
    BY <1>2, <1>3, <1>6, <1>7 DEF new

\* The part of a gap that is left after a while is no larger than the gap.
LEMMA PartOfGap ==
  ASSUME NEW gap \in Nat, NEW times \in Nat \ {0}
  PROVE  gap \div times \in Nat /\ gap \div times <= gap
  <1> DEFINE q == gap \div times
  <1>1. q \in Nat /\ times * q <= gap
    BY DivisionBounds
  <1> HIDE DEF q
  <1>2. q <= times * q
    <2>1. q * 1 <= q * times
      BY <1>1, ProductMonotonic
    <2>2. q * times = times * q
      BY <1>1
    <2> QED
      BY <1>1, <2>1, <2>2
  <1>3. times * q \in Nat
    BY <1>1
  <1> QED
    BY <1>1, <1>2, <1>3 DEF q

\* update_utilization: the adjusted utilization of a sound market does not
\* fall below the actual one, nor does it rise above both.
LEMMA AdjustedComesDown ==
  ASSUME Power!PowerupConstants, now \in 0 .. LastTime, NEW res, Sound(res)
  PROVE  LET new == Power!UpdateUtilization(res)
         IN  /\ Sound(new)
             /\ InUse(res) => InUse(new)
             /\ new.adjusted_utilization \in Nat
             /\ \/ new.adjusted_utilization <= res.adjusted_utilization
                \/ new.adjusted_utilization <= res.utilization
             /\ now > res.utilization_timestamp => new.adjusted_utilization >= res.utilization
             /\ new.utilization_timestamp = now
             /\ new = [res EXCEPT !.adjusted_utilization = new.adjusted_utilization,
                                  !.utilization_timestamp = now]
  <1> DEFINE u == res.utilization
             a == res.adjusted_utilization
             gap == a - u
             times == Decay[now - res.utilization_timestamp]
             b == u + IF gap <= 0 THEN 0 ELSE gap \div times
  <1>1. /\ res \in Power!Market /\ u \in Nat /\ a \in Nat
        /\ res.utilization_timestamp \in Nat /\ res.utilization_timestamp <= now
        /\ u <= res.weight /\ a <= res.weight /\ res.weight \in Nat
    BY DEF Sound, HasCurve, Power!Market
  <1>2. now \in Nat /\ now - res.utilization_timestamp \in 0 .. LastTime
    BY <1>1, PowerTypes
  <1>3. CASE now <= res.utilization_timestamp
    <2>1. Power!UpdateUtilization(res) = res
      BY <1>3 DEF Power!UpdateUtilization
    <2>2. res.utilization_timestamp = now
      BY <1>1, <1>2, <1>3
    <2>3. res = [res EXCEPT !.adjusted_utilization = a, !.utilization_timestamp = now]
      BY <1>1, <2>2 DEF Power!Market
    <2> QED
      BY <1>1, <1>2, <2>1, <2>2, <2>3
  <1>4. CASE now > res.utilization_timestamp
    <2> DEFINE new == [res EXCEPT !.adjusted_utilization = b, !.utilization_timestamp = now]
    <2>1. Power!UpdateUtilization(res) = new
      BY <1>1, <1>2, <1>4 DEF Power!UpdateUtilization
    <2>2. times \in Nat \ {0}
      BY <1>2, PowerTypes
    <2> HIDE DEF times
    <2>3. b \in Nat /\ b >= u /\ (b <= a \/ b <= u)
      <3>1. CASE gap <= 0
        BY <1>1, <3>1
      <3>2. CASE ~(gap <= 0)
        <4>1. gap \in Nat
          BY <1>1, <3>2
        <4>2. gap \div times \in Nat /\ gap \div times <= gap
          <5> HIDE DEF gap
          <5> QED
            BY <4>1, <2>2, PartOfGap
        <4>3. b = u + gap \div times
          BY <3>2
        <4> QED
          BY <1>1, <4>1, <4>2, <4>3
      <3> QED
        BY <3>1, <3>2
    <2> HIDE DEF b
    <2>4. /\ new \in Power!Market
          /\ new.adjusted_utilization = b /\ new.utilization_timestamp = now
          /\ new.utilization = u /\ new.weight = res.weight
          /\ new.weight_ratio = res.weight_ratio
          /\ new.assumed_stake_weight = res.assumed_stake_weight
          /\ new.initial_timestamp = res.initial_timestamp
          /\ new.target_timestamp = res.target_timestamp
          /\ new.target_weight_ratio = res.target_weight_ratio
          /\ new.initial_weight_ratio = res.initial_weight_ratio
          /\ new.min_price = res.min_price /\ new.max_price = res.max_price
      BY <1>1, <1>2, <2>3 DEF Power!Market
    <2> HIDE DEF new
    <2>5. b <= res.weight
      BY <1>1, <2>3
    <2>6. Sound(new)
      BY <1>2, <2>4, <2>5 DEF Sound, HasCurve
    <2>7. RatioAt(new, now) = RatioAt(res, now)
      BY <2>4 DEF RatioAt
    <2>8. InUse(res) => InUse(new)
      BY <2>4, <2>7 DEF InUse
    <2>9. new = [res EXCEPT !.adjusted_utilization = new.adjusted_utilization,
                            !.utilization_timestamp = now]
      BY <2>4 DEF new
    <2> QED
      BY <2>1, <2>3, <2>4, <2>6, <2>8, <2>9
  <1> QED
    BY <1>1, <1>2, <1>3, <1>4

-----------------------------------------------------------------------------
(* The queue of orders.                                                    *)

Order == [owner : Account, weight : [Resource -> Nat], expires : Nat]

\* Which order stays under which number, and the reverse.
Stays(taken) ==
  LET left == DOMAIN orders \ taken
  IN  [k \in 1 .. Cardinality(left) |-> CHOOSE i \in left : Rank(left, i) = k]
Number(taken) ==
  LET left == DOMAIN orders \ taken
  IN  [i \in left |-> Rank(left, i)]

\* The orders that stay keep their order and are numbered afresh.
LEMMA KeptAreOrders ==
  ASSUME orders \in Seq(Order), NEW taken, taken \subseteq DOMAIN orders
  PROVE  LET left == DOMAIN orders \ taken
             n == Cardinality(left)
         IN  /\ n \in Nat
             /\ Power!Kept(taken) \in Seq(Order)
             /\ DOMAIN Power!Kept(taken) = 1 .. n
             /\ Stays(taken) \in [1 .. n -> left] /\ Number(taken) \in [left -> 1 .. n]
             /\ \A k \in 1 .. n :
                  /\ Number(taken)[Stays(taken)[k]] = k
                  /\ Power!Kept(taken)[k] = orders[Stays(taken)[k]]
             /\ \A i \in left : Stays(taken)[Number(taken)[i]] = i
  <1> DEFINE left == DOMAIN orders \ taken
             n == Cardinality(left)
             e(k) == CHOOSE i \in left : Rank(left, i) = k
             at == [k \in 1 .. n |-> e(k)]
             back == [i \in left |-> Rank(left, i)]
             kept == [k \in 1 .. n |-> orders[at[k]]]
  <1>1. DOMAIN orders = 1 .. Len(orders) /\ Len(orders) \in Nat
    OBVIOUS
  <1>2. left \in SUBSET Nat /\ IsFiniteSet(left)
    <2>1. IsFiniteSet(DOMAIN orders)
      BY <1>1, FS_Interval
    <2> QED
      BY <1>1, <2>1, FS_Subset
  <1>3. n \in Nat
    BY <1>2, FS_CardinalityType
  <1>4. /\ \A i \in left : Rank(left, i) \in 1 .. n
        /\ \A i \in left : \A j \in left : i < j => Rank(left, i) <= Rank(left, j) - 1
        /\ \A k \in 1 .. n : \E i \in left : Rank(left, i) = k
    <2> HIDE DEF left
    <2>1. /\ \A i \in left : Rank(left, i) \in 1 .. Cardinality(left)
          /\ \A i \in left : \A j \in left : i < j => Rank(left, i) <= Rank(left, j) - 1
          /\ \A k \in 1 .. Cardinality(left) : \E i \in left : Rank(left, i) = k
      BY ONLY <1>2, RanksAreNumbers
    <2> QED
      BY <2>1
  <1>5. Power!Kept(taken) = kept
    <2>1. Power!Kept(taken) = [k \in 1 .. n |-> orders[e(k)]]
      BY Zenon DEF Power!Kept, Power!Rank, Power!Cardinality, Rank, Cardinality
    <2> HIDE DEF left, n, e
    <2> QED
      BY <2>1
  <1>6. \A k \in 1 .. n : at[k] \in left /\ Rank(left, at[k]) = k
    <2> TAKE k \in 1 .. n
    <2>1. e(k) \in left /\ Rank(left, e(k)) = k
      <3>1. \E i \in left : Rank(left, i) = k
        BY <1>4
      <3> HIDE DEF left, n
      <3> QED
        BY <3>1
    <2> HIDE DEF e, left, n
    <2> QED
      BY <2>1
  <1>7. at \in [1 .. n -> left]
    <2>1. \A k \in 1 .. n : e(k) \in left
      <3> HIDE DEF e, left, n
      <3> QED
        BY <1>6
    <2> HIDE DEF e, left, n
    <2> QED
      BY <2>1
  <1>8. back \in [left -> 1 .. n] /\ \A i \in left : back[i] = Rank(left, i)
    BY <1>4
  <1>9. \A k \in 1 .. n : back[at[k]] = k /\ kept[k] = orders[at[k]]
    BY <1>6, <1>8
  <1>10. \A i \in left : at[back[i]] = i
    <2> TAKE i \in left
    <2> DEFINE j == at[back[i]]
    <2>1. back[i] \in 1 .. n /\ back[i] = Rank(left, i)
      BY <1>8
    <2> HIDE DEF back
    <2>2. j \in left /\ Rank(left, j) = Rank(left, i)
      BY <1>6, <2>1
    <2>3. i \in Nat /\ j \in Nat
      BY <1>1, <2>2
    <2>4. Rank(left, i) \in Nat
      BY <1>3, <2>1
    <2> HIDE DEF j, left, n
    <2>5. ~(i < j) /\ ~(j < i)
      BY <1>4, <2>2, <2>3, <2>4
    <2> QED
      BY <2>3, <2>5 DEF j
  <1>11. kept \in Seq(Order)
    <2>1. \A i \in left : orders[i] \in Order
      BY <1>1
    <2>2. \A k \in 1 .. n : kept[k] \in Order
      <3> HIDE DEF kept, at, back, left, n
      <3> QED
        BY <1>6, <1>9, <2>1
    <2>3. kept = [k \in 1 .. n |-> kept[k]]
      OBVIOUS
    <2> HIDE DEF kept, n
    <2> QED
      BY <1>3, <2>2, <2>3
  <1>12. DOMAIN kept = 1 .. n
    OBVIOUS
  <1>13. at = Stays(taken) /\ back = Number(taken)
    BY Zenon DEF Stays, Number
  <1>14. back \in [left -> 1 .. n]
    BY <1>8
  <1> HIDE DEF kept, at, back, n
  <1> QED
    BY <1>3, <1>5, <1>7, <1>9, <1>10, <1>11, <1>12, <1>13, <1>14 DEF n

\* What is left of a table is numbered afresh: its sum is the whole less what
\* was taken.
LEMMA SumOfRest ==
  ASSUME NEW D, IsFiniteSet(D), NEW taken, taken \subseteq D, NEW f, f \in [D -> Nat],
         NEW K, NEW g, g \in [K -> Nat],
         NEW at, at \in [K -> D \ taken], NEW back, back \in [D \ taken -> K],
         \A k \in K : back[at[k]] = k,
         \A k \in K : g[k] = f[at[k]],
         \A i \in D \ taken : at[back[i]] = i
  PROVE  /\ SumOf([i \in taken |-> f[i]]) \in Nat
         /\ SumOf(f) \in Nat /\ SumOf(g) \in Nat
         /\ SumOf(g) = SumOf(f) - SumOf([i \in taken |-> f[i]])
  <1> DEFINE left == D \ taken
             h == [i \in left |-> f[i]]
             t == [i \in taken |-> f[i]]
  <1>1. left \union taken = D /\ left \intersect taken = {}
    OBVIOUS
  <1>2. h \in [left -> Nat] /\ t \in [taken -> Nat]
    OBVIOUS
  <1>3. \A k \in K : back[at[k]] = k /\ g[k] = h[at[k]]
    OBVIOUS
  <1>4. IsFiniteSet(Units(f)) /\ f \in [D -> Nat]
    BY SumIsFinite
  <1>5. IsFiniteSet(Units(h)) /\ IsFiniteSet(Units(t)) /\ SumOf(f) = SumOf(h) + SumOf(t)
    <2> HIDE DEF left
    <2>1. /\ IsFiniteSet(Units([i \in left |-> f[i]])) /\ IsFiniteSet(Units([i \in taken |-> f[i]]))
          /\ SumOf(f) = SumOf([i \in left |-> f[i]]) + SumOf([i \in taken |-> f[i]])
      BY ONLY <1>1, <1>4, SumOfParts
    <2> QED
      BY <2>1
  <1>6. IsFiniteSet(Units(g)) /\ SumOf(g) = SumOf(h)
    <2>1. h \in [left -> Nat] /\ IsFiniteSet(Units(h))
      BY <1>2, <1>5
    <2>2. g \in [K -> Nat] /\ at \in [K -> left] /\ back \in [left -> K]
      OBVIOUS
    <2>3. \A i \in left : at[back[i]] = i
      OBVIOUS
    <2> HIDE DEF left, h
    <2> QED
      BY ONLY <1>3, <2>1, <2>2, <2>3, SumOfRenamed
  <1>7. SumOf(h) \in Nat /\ SumOf(t) \in Nat
    BY <1>5, FS_CardinalityType DEF SumOf
  <1> QED
    BY <1>5, <1>6, <1>7

\* What the orders of a queue have bought, in all and by one account.
Sold(queue, r) == SumOf([i \in DOMAIN queue |-> queue[i].weight[r]])
Bought(queue, a, r) ==
  SumOf([i \in DOMAIN queue |-> IF queue[i].owner = a THEN queue[i].weight[r] ELSE 0])

\* Without the orders that are taken out, exactly what they bought is missing.
LEMMA QueueShrinks ==
  ASSUME orders \in Seq(Order), NEW taken, taken \subseteq DOMAIN orders,
         NEW r \in Resource
  PROVE  LET kept == Power!Kept(taken)
         IN  /\ Sold(orders, r) \in Nat /\ Sold(kept, r) \in Nat
             /\ Power!Released(taken, r) \in Nat
             /\ Sold(kept, r) = Sold(orders, r) - Power!Released(taken, r)
             /\ \A a \in Account :
                  /\ Bought(orders, a, r) \in Nat /\ Bought(kept, a, r) \in Nat
                  /\ Power!ReleasedBy(a, taken, r) \in Nat
                  /\ Bought(kept, a, r) = Bought(orders, a, r) - Power!ReleasedBy(a, taken, r)
  <1> DEFINE kept == Power!Kept(taken)
             left == DOMAIN orders \ taken
             n == Cardinality(left)
             at == Stays(taken)
             back == Number(taken)
  <1>1. n \in Nat /\ kept \in Seq(Order) /\ DOMAIN kept = 1 .. n
    BY KeptAreOrders
  <1>2. /\ at \in [1 .. n -> left] /\ back \in [left -> 1 .. n]
        /\ \A k \in 1 .. n : back[at[k]] = k /\ kept[k] = orders[at[k]]
        /\ \A i \in left : at[back[i]] = i
    BY KeptAreOrders
  <1> HIDE DEF kept, n, at, back
  <1>3. \A i \in DOMAIN orders : orders[i] \in Order
    OBVIOUS
  <1>4. \A i \in DOMAIN orders : orders[i].weight[r] \in Nat
    BY <1>3 DEF Order
  <1>5. \A k \in 1 .. n : at[k] \in DOMAIN orders /\ kept[k] = orders[at[k]]
    BY <1>2
  <1>6. /\ at \in [1 .. n -> DOMAIN orders \ taken] /\ back \in [DOMAIN orders \ taken -> 1 .. n]
        /\ \A i \in DOMAIN orders \ taken : at[back[i]] = i
        /\ \A k \in 1 .. n : back[at[k]] = k
    BY <1>2
  <1>7. IsFiniteSet(DOMAIN orders)
    <2>1. DOMAIN orders = 1 .. Len(orders) /\ Len(orders) \in Nat
      OBVIOUS
    <2> QED
      BY <2>1, FS_Interval
  <1>8. /\ Power!Released(taken, r) \in Nat
        /\ Sold(orders, r) \in Nat /\ Sold(kept, r) \in Nat
        /\ Sold(kept, r) = Sold(orders, r) - Power!Released(taken, r)
    <2> DEFINE f == [i \in DOMAIN orders |-> orders[i].weight[r]]
               g == [k \in 1 .. n |-> kept[k].weight[r]]
               t == [i \in taken |-> f[i]]
    <2>1. f \in [DOMAIN orders -> Nat]
      BY <1>4
    <2>2. g \in [1 .. n -> Nat] /\ \A k \in 1 .. n : g[k] = f[at[k]]
      BY <1>4, <1>5
    <2>3. t = [i \in taken |-> orders[i].weight[r]]
      OBVIOUS
    <2>4. SumOf(t) = Power!Released(taken, r)
      BY <2>3, PowerSums, Zenon DEF Power!Released
    <2>5. SumOf(f) = Sold(orders, r) /\ SumOf(g) = Sold(kept, r)
      BY <1>1 DEF Sold
    <2> HIDE DEF f, g
    <2>6. /\ SumOf([i \in taken |-> f[i]]) \in Nat
          /\ SumOf(f) \in Nat /\ SumOf(g) \in Nat
          /\ SumOf(g) = SumOf(f) - SumOf([i \in taken |-> f[i]])
      <3> DEFINE D == DOMAIN orders
                 K == 1 .. n
      <3>1. /\ f \in [D -> Nat] /\ g \in [K -> Nat] /\ taken \subseteq D
            /\ at \in [K -> D \ taken] /\ back \in [D \ taken -> K]
        BY <1>6, <2>1, <2>2
      <3>2. \A k \in K : back[at[k]] = k
        BY <1>6
      <3>3. \A k \in K : g[k] = f[at[k]]
        BY <2>2
      <3>4. \A i \in D \ taken : at[back[i]] = i
        BY <1>6
      <3>5. IsFiniteSet(D)
        BY <1>7
      <3> HIDE DEF D, K
      <3> QED
        BY ONLY <3>1, <3>2, <3>3, <3>4, <3>5, SumOfRest, SMTT(60)
    <2> QED
      BY <2>4, <2>5, <2>6
  <1>9. ASSUME NEW a \in Account
        PROVE  /\ Power!ReleasedBy(a, taken, r) \in Nat
               /\ Bought(orders, a, r) \in Nat /\ Bought(kept, a, r) \in Nat
               /\ Bought(kept, a, r) = Bought(orders, a, r) - Power!ReleasedBy(a, taken, r)
    <2> DEFINE f == [i \in DOMAIN orders |-> IF orders[i].owner = a THEN orders[i].weight[r] ELSE 0]
               g == [k \in 1 .. n |-> IF kept[k].owner = a THEN kept[k].weight[r] ELSE 0]
               t == [i \in taken |-> f[i]]
               own == {i \in taken : orders[i].owner = a}
    <2>1. f \in [DOMAIN orders -> Nat]
      BY <1>4
    <2>2. g \in [1 .. n -> Nat] /\ \A k \in 1 .. n : g[k] = f[at[k]]
      BY <1>4, <1>5
    <2>3. [i \in own |-> t[i]] = [i \in own |-> orders[i].weight[r]]
      OBVIOUS
    <2>4. SumOf([i \in own |-> t[i]]) = Power!ReleasedBy(a, taken, r)
      <3>1. Power!ReleasedBy(a, taken, r) = SumOf([i \in own |-> orders[i].weight[r]])
        BY PowerSums, Zenon DEF Power!ReleasedBy, Power!Released
      <3> HIDE DEF t, own
      <3> QED
        BY <2>3, <3>1
    <2>5. t \in [taken -> Nat] /\ own \subseteq taken /\ \A i \in taken \ own : t[i] = 0
      BY <2>1
    <2>6. IsFiniteSet(Units(t))
      <3>1. IsFiniteSet(taken)
        BY <1>7, FS_Subset
      <3> HIDE DEF t
      <3> QED
        BY <2>5, <3>1, SumIsFinite
    <2>7. SumOf([i \in own |-> t[i]]) = SumOf(t)
      <3> HIDE DEF t, own
      <3> QED
        BY ONLY <2>5, <2>6, SumOfSupport
    <2>8. SumOf(f) = Bought(orders, a, r) /\ SumOf(g) = Bought(kept, a, r)
      BY <1>1 DEF Bought
    <2> HIDE DEF f, g
    <2>9. /\ SumOf([i \in taken |-> f[i]]) \in Nat
          /\ SumOf(f) \in Nat /\ SumOf(g) \in Nat
          /\ SumOf(g) = SumOf(f) - SumOf([i \in taken |-> f[i]])
      <3> DEFINE D == DOMAIN orders
                 K == 1 .. n
      <3>1. /\ f \in [D -> Nat] /\ g \in [K -> Nat] /\ taken \subseteq D
            /\ at \in [K -> D \ taken] /\ back \in [D \ taken -> K]
        BY <1>6, <2>1, <2>2
      <3>2. \A k \in K : back[at[k]] = k
        BY <1>6
      <3>3. \A k \in K : g[k] = f[at[k]]
        BY <2>2
      <3>4. \A i \in D \ taken : at[back[i]] = i
        BY <1>6
      <3>5. IsFiniteSet(D)
        BY <1>7
      <3> HIDE DEF D, K
      <3> QED
        BY ONLY <3>1, <3>2, <3>3, <3>4, <3>5, SumOfRest
    <2> HIDE DEF own
    <2> QED
      BY <2>4, <2>7, <2>8, <2>9
  <1> QED
    BY <1>8, <1>9 DEF kept

\* An order that is added counts in full.
LEMMA QueueGrows ==
  ASSUME NEW queue, queue \in Seq(Order), NEW order, order \in Order,
         NEW r \in Resource, NEW a \in Account
  PROVE  /\ Append(queue, order) \in Seq(Order)
         /\ Sold(queue, r) \in Nat
         /\ Sold(Append(queue, order), r) = Sold(queue, r) + order.weight[r]
         /\ Bought(queue, a, r) \in Nat
         /\ Bought(Append(queue, order), a, r)
              = Bought(queue, a, r) + IF order.owner = a THEN order.weight[r] ELSE 0
  <1> DEFINE longer == Append(queue, order)
             n == Len(queue)
             A == 1 .. n
             p == n + 1
  <1>1. /\ n \in Nat /\ DOMAIN queue = A /\ DOMAIN longer = 1 .. p
        /\ longer \in Seq(Order)
        /\ longer[p] = order /\ \A i \in A : longer[i] = queue[i]
    OBVIOUS
  <1>2. 1 .. p = A \union {p} /\ p \notin A
    BY <1>1
  <1>3. IsFiniteSet(A)
    BY <1>1, FS_Interval
  <1>4. \A i \in A : queue[i] \in Order
    BY <1>1
  <1>5. /\ \A i \in A : queue[i].weight[r] \in Nat
        /\ order.weight[r] \in Nat
    BY <1>4 DEF Order
  <1> HIDE DEF A, p, longer, n
  <1>6. Sold(queue, r) \in Nat /\ Sold(longer, r) = Sold(queue, r) + order.weight[r]
    <2> DEFINE D == A \union {p}
               g == [i \in D |-> longer[i].weight[r]]
               f == [i \in A |-> queue[i].weight[r]]
    <2>1. g \in [A \union {p} -> Nat] /\ g[p] = order.weight[r]
      BY <1>1, <1>5
    <2>2. [i \in A |-> g[i]] = f
      BY <1>1
    <2>3. SumOf(g) = Sold(longer, r) /\ SumOf(f) = Sold(queue, r)
      BY <1>1, <1>2 DEF Sold
    <2> HIDE DEF f, g, D
    <2>4. /\ SumOf([i \in A |-> g[i]]) \in Nat
          /\ SumOf(g) = SumOf([i \in A |-> g[i]]) + g[p]
      BY ONLY <1>2, <1>3, <2>1, SumWithEntry
    <2> QED
      BY <2>1, <2>2, <2>3, <2>4
  <1>7. /\ Bought(queue, a, r) \in Nat
        /\ Bought(longer, a, r) = Bought(queue, a, r) + IF order.owner = a THEN order.weight[r] ELSE 0
    <2> DEFINE D == A \union {p}
               g == [i \in D |-> IF longer[i].owner = a THEN longer[i].weight[r] ELSE 0]
               f == [i \in A |-> IF queue[i].owner = a THEN queue[i].weight[r] ELSE 0]
    <2>1. /\ g \in [A \union {p} -> Nat]
          /\ g[p] = IF order.owner = a THEN order.weight[r] ELSE 0
      BY <1>1, <1>5
    <2>2. [i \in A |-> g[i]] = f
      BY <1>1
    <2>3. SumOf(g) = Bought(longer, a, r) /\ SumOf(f) = Bought(queue, a, r)
      BY <1>1, <1>2 DEF Bought
    <2> HIDE DEF f, g, D
    <2>4. /\ SumOf([i \in A |-> g[i]]) \in Nat
          /\ SumOf(g) = SumOf([i \in A |-> g[i]]) + g[p]
      BY ONLY <1>2, <1>3, <2>1, SumWithEntry, ZenonT(60)
    <2> QED
      BY <2>1, <2>2, <2>3, <2>4
  <1> QED
    BY <1>1, <1>6, <1>7 DEF longer

-----------------------------------------------------------------------------
(* The invariant of the power-up market.                                   *)

\* TypeOK and SalesAreCovered alone are not inductive: that the weight does not
\* shrink below what is sold needs the ratio to come down, and that is only so
\* as long as the weight is what the ratio makes it.
PowerInv ==
  /\ Power!TypeOK
  /\ \A r \in Resource : Sound(state[r])
  /\ configured => \A r \in Resource : InUse(state[r])
  /\ ~configured => \A r \in Resource : state[r] = Power!NoMarket
  /\ \A r \in Resource : state[r].utilization = Sold(orders, r)
  /\ \A r \in Resource : reserv[r] = state[r].weight - state[r].utilization
  /\ \A a \in Account, r \in Resource :
       /\ powered[a][r] = Bought(orders, a, r)
       /\ limits[a][r] = IF <<a, r>> \in managed THEN 0 ELSE Bought(orders, a, r)

\* The invariant in the words of the module.
LEMMA PowerInvCovers == PowerInv => Power!TypeOK /\ Power!SalesAreCovered
  <1> SUFFICES ASSUME PowerInv PROVE Power!TypeOK /\ Power!SalesAreCovered
    OBVIOUS
  <1>1. Power!UtilizationIsSold
    BY PowerSums, Zenon DEF PowerInv, Power!UtilizationIsSold, Sold
  <1>2. Power!ReservIsUnsold
    BY Zenon DEF PowerInv, Power!ReservIsUnsold
  <1>3. Power!OrdersAreGranted
    <2> SUFFICES ASSUME NEW a \in Account, NEW r \in Resource
                 PROVE  LET bought == Bought(orders, a, r)
                        IN  /\ powered[a][r] = bought
                            /\ limits[a][r] = IF <<a, r>> \in managed THEN 0 ELSE bought
      BY PowerSums, Zenon DEF Power!OrdersAreGranted, Bought
    <2> QED
      BY DEF PowerInv
  <1>4. Power!UtilizationIsWithinWeight
    BY DEF PowerInv, Power!UtilizationIsWithinWeight, Sound, HasCurve
  <1> QED
    BY <1>1, <1>2, <1>3, <1>4 DEF PowerInv, Power!SalesAreCovered

\* The market before it is configured.
LEMMA NoMarketIsSound ==
  ASSUME Power!PowerupConstants, now \in Nat
  PROVE  Sound(Power!NoMarket)
  <1> DEFINE res == Power!NoMarket
  <1>1. Frac \in Nat \ {0}
    BY PowerTypes
  <1>2. res \in Power!Market
    BY <1>1 DEF Power!NoMarket, Power!Market
  <1> QED
    BY <1>1, <1>2 DEF Power!NoMarket, Sound, HasCurve

\* Init establishes the invariant.
LEMMA PowerInit ==
  ASSUME Power!PowerupConstants, Power!Init
  PROVE  PowerInv
  <1> USE DEF Power!Init
  <1>1. now = 0 /\ LastTime \in Nat /\ Days \subseteq Nat \ {0}
    BY PowerTypes
  <1>2. \A r \in Resource : state[r] = Power!NoMarket /\ Sound(state[r])
    <2>1. now \in Nat
      BY <1>1
    <2> QED
      BY <2>1, NoMarketIsSound
  <1>3. \A r \in Resource : state[r] \in Power!Market
    BY <1>2 DEF Sound, HasCurve
  <1>4. orders \in Seq(Order) /\ DOMAIN orders = {}
    OBVIOUS
  <1>5. Power!TypeOK
    <2>1. state \in [Resource -> Power!Market]
      BY <1>3
    <2>2. reserv \in [Resource -> Nat] /\ powered \in [Account -> [Resource -> Nat]]
          /\ limits \in [Account -> [Resource -> Nat]]
      BY DEF Power!Nothing
    <2>3. orders \in Seq([owner : Account, weight : [Resource -> Nat], expires : Nat])
      BY <1>4 DEF Order
    <2>4. configured \in BOOLEAN /\ powerup_days \in Days /\ managed \subseteq Account \X Resource
      BY Zenon
    <2>5. now \in 0 .. LastTime
      BY <1>1
    <2> QED
      BY <2>1, <2>2, <2>3, <2>4, <2>5 DEF Power!TypeOK
  <1>6. SumOf([i \in {} |-> 0]) = 0
    BY SumOfZeros
  <1>7. \A r \in Resource : Sold(orders, r) = 0
    <2> TAKE r \in Resource
    <2>1. [i \in DOMAIN orders |-> orders[i].weight[r]] = [i \in {} |-> 0]
      BY <1>4
    <2> QED
      BY <1>6, <2>1, Zenon DEF Sold
  <1>8. \A a \in Account, r \in Resource : Bought(orders, a, r) = 0
    <2> TAKE a \in Account, r \in Resource
    <2>1. [i \in DOMAIN orders |-> IF orders[i].owner = a THEN orders[i].weight[r] ELSE 0]
            = [i \in {} |-> 0]
      BY <1>4
    <2> QED
      BY <1>6, <2>1, Zenon DEF Bought
  <1>9. \A r \in Resource : state[r].utilization = 0 /\ state[r].weight = 0 /\ reserv[r] = 0
    BY <1>2 DEF Power!NoMarket, Power!Nothing
  <1>10. \A a \in Account, r \in Resource : powered[a][r] = 0 /\ limits[a][r] = 0
    BY DEF Power!Nothing
  <1> QED
    BY <1>2, <1>5, <1>7, <1>8, <1>9, <1>10 DEF PowerInv

-----------------------------------------------------------------------------
(* Taking orders out of the queue.                                         *)

\* A market whose utilization goes down is still sound, and its weight does
\* not shrink.
LEMMA MarketMoves ==
  ASSUME Power!PowerupConstants, now \in 0 .. LastTime, NEW res, Sound(res), InUse(res),
         NEW gone \in Nat, gone <= res.utilization
  PROVE  LET up == Power!UpdateUtilization(res)
             new == Power!UpdateWeight([up EXCEPT !.utilization = @ - gone])
         IN  /\ Sound(new) /\ InUse(new)
             /\ res.weight <= new.weight
             /\ new.utilization = res.utilization - gone
             /\ new.adjusted_utilization = up.adjusted_utilization
             /\ new.utilization_timestamp = now
             /\ new.initial_timestamp = res.initial_timestamp
  <1> DEFINE up == Power!UpdateUtilization(res)
             less == [up EXCEPT !.utilization = @ - gone]
             new == Power!UpdateWeight(less)
             rest == res.utilization - gone
             b == up.adjusted_utilization
  <1>1. /\ Sound(up) /\ InUse(up) /\ up.utilization_timestamp = now
        /\ up = [res EXCEPT !.adjusted_utilization = b, !.utilization_timestamp = now]
    BY AdjustedComesDown
  <1>2. now \in Nat /\ res \in Power!Market
    BY PowerTypes DEF Sound, HasCurve
  <1> HIDE DEF up, b
  <1>3. up.utilization = res.utilization /\ up.weight = res.weight
        /\ up.initial_timestamp = res.initial_timestamp
    BY <1>1, <1>2 DEF Power!Market
  <1>4. up \in Power!Market
    BY <1>1 DEF Sound, HasCurve
  <1>5. rest \in Nat /\ rest <= res.utilization
    BY <1>2 DEF Power!Market
  <1>6. /\ less \in Power!Market
        /\ less.utilization = rest /\ less.weight = res.weight
        /\ less.weight_ratio = up.weight_ratio
        /\ less.assumed_stake_weight = up.assumed_stake_weight
        /\ less.initial_timestamp = res.initial_timestamp
        /\ less.target_timestamp = up.target_timestamp
        /\ less.target_weight_ratio = up.target_weight_ratio
        /\ less.initial_weight_ratio = up.initial_weight_ratio
        /\ less.min_price = up.min_price /\ less.max_price = up.max_price
        /\ less.adjusted_utilization = up.adjusted_utilization
        /\ less.utilization_timestamp = now
    <2>1. less = [up EXCEPT !.utilization = rest]
      BY <1>3, <1>4 DEF Power!Market
    <2> HIDE DEF less, rest
    <2> QED
      BY <1>1, <1>3, <1>4, <1>5, <2>1 DEF Power!Market
  <1> HIDE DEF less
  <1>7. Sound(less)
    <2>1. rest <= up.weight
      BY <1>1, <1>2, <1>3, <1>4, <1>5 DEF Sound, HasCurve, Power!Market
    <2> QED
      BY <1>1, <1>2, <1>3, <1>6, <2>1 DEF Sound, HasCurve
  <1>8. InUse(less)
    <2>1. RatioAt(less, now) = RatioAt(up, now)
      BY <1>3, <1>6 DEF RatioAt
    <2> QED
      BY <1>1, <1>3, <1>6, <2>1 DEF InUse
  <1>9. /\ Sound(new) /\ InUse(new) /\ less.weight <= new.weight
        /\ new.utilization = less.utilization
        /\ new.adjusted_utilization = less.adjusted_utilization
        /\ new.utilization_timestamp = less.utilization_timestamp
        /\ new.initial_timestamp = less.initial_timestamp
    BY <1>2, <1>7, <1>8, WeightOnlyGrows
  <1> HIDE DEF new
  <1> QED
    BY <1>6, <1>9 DEF new, less, up, rest

\* What the types say of the market, without the variables that each action
\* replaces.
LEMMA PowerInvTypes ==
  ASSUME Power!PowerupConstants, PowerInv
  PROVE  /\ configured \in BOOLEAN /\ powerup_days \in Days /\ powerup_days \in Nat
         /\ orders \in Seq(Order)
         /\ managed \subseteq Account \X Resource
         /\ now \in 0 .. LastTime /\ now \in Nat
         /\ \A a \in Account, r \in Resource : powered[a][r] \in Nat /\ limits[a][r] \in Nat
         /\ \A r \in Resource : reserv[r] \in Nat /\ state[r] \in Power!Market
  <1>1. Days \subseteq Nat \ {0} /\ LastTime \in Nat
    BY PowerTypes
  <1>2. orders \in Seq(Order)
    BY DEF PowerInv, Power!TypeOK, Order
  <1> QED
    BY <1>1, <1>2 DEF PowerInv, Power!TypeOK

\* process_powerup_queue: what the orders taken out give back goes to
\* eosio.reserv, with what the weight has gained.
LEMMA QueueIsProcessed ==
  ASSUME Power!PowerupConstants, PowerInv, configured,
         NEW taken, taken \subseteq DOMAIN orders, NEW r \in Resource,
         NEW due, due = [x \in Resource |-> Power!Processed(taken, x)]
  PROVE  LET kept == Power!Kept(taken)
         IN  /\ Sound(due[r]) /\ InUse(due[r])
             /\ state[r].weight <= due[r].weight
             /\ due[r].utilization = Sold(kept, r)
             /\ due[r].adjusted_utilization
                  = Power!UpdateUtilization(state[r]).adjusted_utilization
             /\ due[r].utilization_timestamp = now
             /\ due[r].initial_timestamp = state[r].initial_timestamp
             /\ Power!Available(taken, due, r) \in Int
             /\ reserv[r] + Power!Available(taken, due, r) = due[r].weight - due[r].utilization
             /\ \A a \in Account :
                  /\ Bought(kept, a, r) \in Nat
                  /\ powered[a][r] - Power!ReleasedBy(a, taken, r) = Bought(kept, a, r)
  <1> DEFINE kept == Power!Kept(taken)
             gone == Power!Released(taken, r)
             res == state[r]
             up == Power!UpdateUtilization(res)
             new == Power!UpdateWeight([up EXCEPT !.utilization = @ - gone])
  <1>1. /\ orders \in Seq(Order) /\ now \in 0 .. LastTime /\ res \in Power!Market
    BY PowerInvTypes
  <1>2. /\ Sound(res) /\ InUse(res) /\ res.utilization = Sold(orders, r)
        /\ reserv[r] = res.weight - res.utilization
        /\ \A a \in Account : powered[a][r] = Bought(orders, a, r)
    BY DEF PowerInv
  <1>3. /\ Sold(orders, r) \in Nat /\ Sold(kept, r) \in Nat /\ gone \in Nat
        /\ Sold(kept, r) = Sold(orders, r) - gone
        /\ \A a \in Account :
             /\ Bought(orders, a, r) \in Nat /\ Bought(kept, a, r) \in Nat
             /\ Power!ReleasedBy(a, taken, r) \in Nat
             /\ Bought(kept, a, r) = Bought(orders, a, r) - Power!ReleasedBy(a, taken, r)
    BY <1>1, QueueShrinks
  <1>4. gone \in Nat /\ gone <= res.utilization /\ Sold(kept, r) = res.utilization - gone
    BY <1>2, <1>3
  <1>5. due[r] = new
    BY DEF Power!Processed
  <1> HIDE DEF gone, res, kept
  <1>6. /\ Sound(new) /\ InUse(new) /\ res.weight <= new.weight
        /\ new.utilization = res.utilization - gone
        /\ new.adjusted_utilization = up.adjusted_utilization
        /\ new.utilization_timestamp = now
        /\ new.initial_timestamp = res.initial_timestamp
    BY <1>1, <1>2, <1>4, MarketMoves
  <1> HIDE DEF up, new
  <1>7. new.weight \in Nat /\ res.weight \in Nat /\ res.utilization \in Nat
    BY <1>1, <1>6 DEF Sound, HasCurve, Power!Market
  <1>8. Power!Available(taken, due, r) = gone + new.weight - res.weight
    BY <1>5 DEF Power!Available, gone, res
  <1>11. Power!Available(taken, due, r) \in Int
    BY <1>4, <1>7, <1>8
  <1>9. reserv[r] + Power!Available(taken, due, r) = new.weight - new.utilization
    BY <1>2, <1>4, <1>6, <1>7, <1>8
  <1>10. \A a \in Account :
           /\ Bought(kept, a, r) \in Nat
           /\ powered[a][r] - Power!ReleasedBy(a, taken, r) = Bought(kept, a, r)
    BY <1>2, <1>3
  <1> QED
    BY <1>4, <1>5, <1>6, <1>9, <1>10, <1>11 DEF kept, res, up

\* process_powerup_queue takes orders out of the queue.
LEMMA TakenAreOrders == \A max : Power!Taken(max) \subseteq DOMAIN orders
  BY DEF Power!Taken, Power!Due

\* A market that was just brought up to date stays as it is.
LEMMA UpToDate ==
  ASSUME NEW res, res.utilization_timestamp = now, now \in Nat
  PROVE  Power!UpdateUtilization(res) = res
  BY DEF Power!UpdateUtilization

\* powerupexec: the market is covered without the orders taken out, and the
\* price that use ends at is the price it had.
LEMMA PowerupExecStep ==
  ASSUME Power!PowerupConstants, PowerInv, NEW max, Power!PowerupExec(max)
  PROVE  PowerInv' /\ Power!PriceOutlivesUse
  <1> DEFINE taken == Power!Taken(max)
             due == [r \in Resource |-> Power!Processed(taken, r)]
             kept == Power!Kept(taken)
  <1>1. /\ configured /\ state' = due /\ orders' = kept
        /\ powered' = [a \in Account |-> [r \in Resource |->
                         powered[a][r] - Power!ReleasedBy(a, taken, r)]]
        /\ limits' = Power!AdjustResources(powered')
        /\ reserv' = [r \in Resource |-> reserv[r] + Power!Available(taken, due, r)]
        /\ UNCHANGED <<configured, powerup_days, managed, now>>
    BY Zenon DEF Power!PowerupExec
  <1>2. /\ configured \in BOOLEAN /\ powerup_days \in Days
        /\ orders \in Seq(Order) /\ managed \subseteq Account \X Resource
        /\ now \in 0 .. LastTime /\ now \in Nat
    BY PowerInvTypes
  <1>3. taken \subseteq DOMAIN orders
    BY TakenAreOrders
  <1> HIDE DEF taken
  <1>4. kept \in Seq(Order)
    BY <1>2, <1>3, KeptAreOrders
  <1>5. \A r \in Resource :
          /\ Sound(due[r]) /\ InUse(due[r])
          /\ state[r].weight <= due[r].weight
          /\ due[r].utilization = Sold(kept, r)
          /\ due[r].adjusted_utilization
               = Power!UpdateUtilization(state[r]).adjusted_utilization
          /\ due[r].utilization_timestamp = now
          /\ reserv[r] + Power!Available(taken, due, r) = due[r].weight - due[r].utilization
          /\ \A a \in Account :
               /\ Bought(kept, a, r) \in Nat
               /\ powered[a][r] - Power!ReleasedBy(a, taken, r) = Bought(kept, a, r)
    <2> TAKE r \in Resource
    <2> DEFINE d == due
    <2>1. d = [x \in Resource |-> Power!Processed(taken, x)]
      OBVIOUS
    <2> HIDE DEF d
    <2>2. /\ Sound(d[r]) /\ InUse(d[r])
          /\ state[r].weight <= d[r].weight
          /\ d[r].utilization = Sold(kept, r)
          /\ d[r].adjusted_utilization
               = Power!UpdateUtilization(state[r]).adjusted_utilization
          /\ d[r].utilization_timestamp = now
          /\ reserv[r] + Power!Available(taken, d, r) = d[r].weight - d[r].utilization
          /\ \A a \in Account :
               /\ Bought(kept, a, r) \in Nat
               /\ powered[a][r] - Power!ReleasedBy(a, taken, r) = Bought(kept, a, r)
      BY <1>1, <1>3, <2>1, QueueIsProcessed
    <2> QED
      BY <2>2 DEF d
  <1>6. \A r \in Resource : state'[r] = due[r]
    BY <1>1
  <1>7. due = [r \in Resource |-> due[r]]
    OBVIOUS
  <1> HIDE DEF due, kept
  <1>8. \A r \in Resource : due[r] \in Power!Market /\ due[r].weight - due[r].utilization \in Nat
    BY <1>5 DEF Sound, HasCurve, Power!Market
  <1>9. \A r \in Resource : reserv'[r] = due[r].weight - due[r].utilization
    BY <1>1, <1>5
  <1>10. \A a \in Account, r \in Resource : powered'[a][r] = Bought(kept, a, r)
    BY <1>1, <1>5
  <1>11. \A a \in Account, r \in Resource :
           limits'[a][r] = IF <<a, r>> \in managed THEN 0 ELSE Bought(kept, a, r)
    <2> TAKE a \in Account, r \in Resource
    <2>1. limits'[a][r] = IF <<a, r>> \in managed THEN limits[a][r] ELSE powered'[a][r]
      BY <1>1, Zenon DEF Power!AdjustResources
    <2>2. <<a, r>> \in managed => limits[a][r] = 0
      BY DEF PowerInv
    <2> QED
      BY <1>10, <2>1, <2>2
  <1>12. Power!TypeOK'
    <2>1. state' \in [Resource -> Power!Market] /\ orders' \in Seq(Order)
      BY <1>1, <1>4, <1>7, <1>8
    <2>2. reserv' \in [Resource -> Nat]
      BY <1>1, <1>8, <1>9
    <2>3. powered' \in [Account -> [Resource -> Nat]]
      BY <1>1, <1>5, <1>10
    <2>4. limits' \in [Account -> [Resource -> Nat]]
      BY <1>1, <1>5, <1>11 DEF Power!AdjustResources
    <2> QED
      BY <1>1, <1>2, <2>1, <2>2, <2>3, <2>4, Zenon DEF Power!TypeOK, Order
  <1>13. \A r \in Resource : Sound(state[r])' /\ InUse(state[r])'
    BY <1>1, <1>5, <1>6 DEF Sound, InUse
  <1>14. PowerInv'
    BY <1>1, <1>5, <1>6, <1>9, <1>10, <1>11, <1>12, <1>13 DEF PowerInv
  <1>15. Power!PriceOutlivesUse
    <2> SUFFICES ASSUME NEW r \in Resource
                 PROVE  Power!UpdateUtilization(state[r]).adjusted_utilization
                          <= Power!UpdateUtilization(state'[r]).adjusted_utilization
      BY DEF Power!PriceOutlivesUse
    <2>1. Power!UpdateUtilization(due[r]) = due[r]
      BY <1>2, <1>5, UpToDate
    <2>2. due[r].adjusted_utilization \in Nat
      BY <1>8 DEF Power!Market
    <2> QED
      BY <1>5, <1>6, <2>1, <2>2
  <1> QED
    BY <1>14, <1>15

\* powerup: what is bought comes out of eosio.reserv, and the queue takes in
\* the order that gives it back.
LEMMA PowerUpStep ==
  ASSUME Power!PowerupConstants, PowerInv, NEW receiver \in Account,
         NEW fractions \in [Resource -> Fractions], Power!PowerUp(receiver, fractions)
  PROVE  PowerInv' /\ Power!PriceOutlivesUse
  <1> DEFINE taken == Power!Taken(2)
             due == [r \in Resource |-> Power!Processed(taken, r)]
             kept == Power!Kept(taken)
             amounts == [r \in Resource |-> (fractions[r] * due[r].weight) \div Frac]
             new == [r \in Resource |-> [due[r] EXCEPT !.utilization = @ + amounts[r]]]
             order == [owner |-> receiver, weight |-> amounts, expires |-> now + powerup_days]
  <1>1. /\ configured /\ state' = new /\ orders' = Append(kept, order)
        /\ \A r \in Resource : fractions[r] # 0 => Power!CanBuy(due[r], amounts[r])
        /\ powered' = [a \in Account |-> [r \in Resource |->
                         powered[a][r] - Power!ReleasedBy(a, taken, r)
                           + IF a = receiver THEN amounts[r] ELSE 0]]
        /\ \A r \in Resource : <<receiver, r>> \notin managed
        /\ limits' = Power!AdjustResources(powered')
        /\ reserv' = [r \in Resource |-> reserv[r] + Power!Available(taken, due, r) - amounts[r]]
        /\ UNCHANGED <<configured, powerup_days, managed, now>>
    BY Zenon DEF Power!PowerUp
  <1>2. /\ configured \in BOOLEAN /\ powerup_days \in Days /\ powerup_days \in Nat
        /\ orders \in Seq(Order) /\ managed \subseteq Account \X Resource
        /\ now \in 0 .. LastTime /\ now \in Nat
    BY PowerInvTypes
  <1>3. taken \subseteq DOMAIN orders
    BY TakenAreOrders
  <1> HIDE DEF taken
  <1>4. kept \in Seq(Order)
    BY <1>2, <1>3, KeptAreOrders
  <1>5. \A r \in Resource :
          /\ Sound(due[r]) /\ InUse(due[r])
          /\ due[r].utilization = Sold(kept, r)
          /\ due[r].adjusted_utilization
               = Power!UpdateUtilization(state[r]).adjusted_utilization
          /\ due[r].utilization_timestamp = now
          /\ Power!Available(taken, due, r) \in Int
          /\ reserv[r] + Power!Available(taken, due, r) = due[r].weight - due[r].utilization
          /\ \A a \in Account :
               /\ Bought(kept, a, r) \in Nat
               /\ powered[a][r] - Power!ReleasedBy(a, taken, r) = Bought(kept, a, r)
    <2> TAKE r \in Resource
    <2> DEFINE d == due
    <2>1. d = [x \in Resource |-> Power!Processed(taken, x)]
      OBVIOUS
    <2> HIDE DEF d
    <2>2. /\ Sound(d[r]) /\ InUse(d[r])
          /\ d[r].utilization = Sold(kept, r)
          /\ d[r].adjusted_utilization
               = Power!UpdateUtilization(state[r]).adjusted_utilization
          /\ d[r].utilization_timestamp = now
          /\ Power!Available(taken, d, r) \in Int
          /\ reserv[r] + Power!Available(taken, d, r) = d[r].weight - d[r].utilization
          /\ \A a \in Account :
               /\ Bought(kept, a, r) \in Nat
               /\ powered[a][r] - Power!ReleasedBy(a, taken, r) = Bought(kept, a, r)
      BY <1>1, <1>3, <2>1, QueueIsProcessed
    <2> QED
      BY <2>2 DEF d
  <1> HIDE DEF due, kept
  <1>6. \A r \in Resource :
          /\ due[r] \in Power!Market /\ due[r].weight \in Nat /\ due[r].utilization \in Nat
          /\ due[r].utilization <= due[r].weight
    BY <1>5 DEF Sound, HasCurve, Power!Market
  <1>7. \A r \in Resource :
          amounts[r] \in Nat /\ due[r].utilization + amounts[r] <= due[r].weight
    <2> TAKE r \in Resource
    <2>1. fractions[r] \in 0 .. Frac /\ Frac \in Nat \ {0} /\ fractions[r] \in Nat
      BY PowerTypes
    <2> DEFINE f == fractions[r]
               w == due[r].weight
               n == f * w
    <2>2. n \in Nat /\ amounts[r] = n \div Frac
      BY <1>6, <2>1, ProductIsNat
    <2>3. amounts[r] \in Nat
      <3> HIDE DEF n
      <3>1. n \div Frac \in Nat
        BY <2>1, <2>2, DivisionBounds
      <3> QED
        BY <2>2, <3>1
    <2>4. CASE fractions[r] # 0
      BY <1>1, <2>3, <2>4 DEF Power!CanBuy
    <2>5. CASE fractions[r] = 0
      <3>1. n = 0
        BY <1>6, <2>5
      <3>2. amounts[r] = 0
        BY <2>1, <2>2, <3>1
      <3> QED
        BY <1>6, <3>2
    <2> QED
      BY <2>3, <2>4, <2>5
  <1>8. amounts \in [Resource -> Nat]
    BY <1>7
  <1> HIDE DEF amounts
  <1>9. order \in Order /\ order.owner = receiver /\ \A r \in Resource : order.weight[r] = amounts[r]
    BY <1>2, <1>8 DEF Order
  <1> HIDE DEF order
  <1>10. /\ orders' \in Seq(Order)
         /\ \A r \in Resource :
              /\ Sold(orders', r) = due[r].utilization + amounts[r]
              /\ \A a \in Account : Bought(orders', a, r)
                   = Bought(kept, a, r) + IF a = receiver THEN amounts[r] ELSE 0
    <2>1. Append(kept, order) \in Seq(Order)
      BY <1>4, <1>9
    <2>2. \A r \in Resource, a \in Account :
            /\ Sold(Append(kept, order), r) = Sold(kept, r) + order.weight[r]
            /\ Bought(Append(kept, order), a, r)
                 = Bought(kept, a, r) + IF order.owner = a THEN order.weight[r] ELSE 0
      BY <1>4, <1>9, QueueGrows
    <2> QED
      BY <1>1, <1>5, <1>9, <2>1, <2>2
  <1>11. \A r \in Resource :
           /\ state'[r] = new[r]
           /\ new[r] = [due[r] EXCEPT !.utilization = due[r].utilization + amounts[r]]
    BY <1>1, <1>6 DEF Power!Market
  <1>12. \A r \in Resource :
           /\ new[r] \in Power!Market
           /\ new[r].utilization = due[r].utilization + amounts[r]
           /\ new[r].weight = due[r].weight
           /\ new[r].weight_ratio = due[r].weight_ratio
           /\ new[r].assumed_stake_weight = due[r].assumed_stake_weight
           /\ new[r].initial_timestamp = due[r].initial_timestamp
           /\ new[r].target_timestamp = due[r].target_timestamp
           /\ new[r].target_weight_ratio = due[r].target_weight_ratio
           /\ new[r].initial_weight_ratio = due[r].initial_weight_ratio
           /\ new[r].min_price = due[r].min_price /\ new[r].max_price = due[r].max_price
           /\ new[r].adjusted_utilization = due[r].adjusted_utilization
           /\ new[r].utilization_timestamp = due[r].utilization_timestamp
    <2> TAKE r \in Resource
    <2> DEFINE u == due[r].utilization + amounts[r]
               m == [due[r] EXCEPT !.utilization = u]
               d == due[r]
    <2>1. u \in Nat /\ d \in Power!Market /\ new[r] = [d EXCEPT !.utilization = u]
      BY <1>6, <1>7, <1>11
    <2> HIDE DEF u, d, new
    <2>2. /\ new[r] \in Power!Market
          /\ new[r].utilization = u
          /\ new[r].weight = d.weight
          /\ new[r].weight_ratio = d.weight_ratio
          /\ new[r].assumed_stake_weight = d.assumed_stake_weight
          /\ new[r].initial_timestamp = d.initial_timestamp
          /\ new[r].target_timestamp = d.target_timestamp
          /\ new[r].target_weight_ratio = d.target_weight_ratio
          /\ new[r].initial_weight_ratio = d.initial_weight_ratio
          /\ new[r].min_price = d.min_price /\ new[r].max_price = d.max_price
          /\ new[r].adjusted_utilization = d.adjusted_utilization
          /\ new[r].utilization_timestamp = d.utilization_timestamp
      BY <2>1 DEF Power!Market
    <2> QED
      BY <2>2 DEF u, d
  <1>13. new = [r \in Resource |-> new[r]]
    OBVIOUS
  <1> HIDE DEF new
  <1>14. \A r \in Resource : Sound(new[r]) /\ InUse(new[r])
    <2> TAKE r \in Resource
    <2>1. Sound(new[r])
      BY <1>5, <1>7, <1>12 DEF Sound, HasCurve
    <2>2. RatioAt(new[r], now) = RatioAt(due[r], now)
      BY <1>12 DEF RatioAt
    <2>3. InUse(new[r])
      BY <1>5, <1>12, <2>2 DEF InUse
    <2> QED
      BY <2>1, <2>3
  <1>15. \A r \in Resource : /\ reserv'[r] = new[r].weight - new[r].utilization
                             /\ reserv'[r] \in Nat
    <2> TAKE r \in Resource
    <2> DEFINE n == amounts[r]
               all == reserv[r] + Power!Available(taken, due, r)
               w == due[r].weight
               u == due[r].utilization
    <2>1. reserv'[r] = reserv[r] + (Power!Available(taken, due, r) - n)
      BY <1>1
    <2>2. reserv[r] \in Nat /\ Power!Available(taken, due, r) \in Int
      BY <1>5, PowerInvTypes
    <2>3. n \in Nat /\ w \in Nat /\ u \in Nat /\ u + n <= w /\ all = w - u
      BY <1>5, <1>6, <1>7
    <2>4. new[r].weight = w /\ new[r].utilization = u + n
      BY <1>12
    <2> QED
      BY ONLY <2>1, <2>2, <2>3, <2>4
  <1>16. \A a \in Account, r \in Resource :
           powered'[a][r] = Bought(orders', a, r) /\ powered'[a][r] \in Nat
    BY <1>1, <1>5, <1>7, <1>10
  <1>17. \A a \in Account, r \in Resource :
           limits'[a][r] = IF <<a, r>> \in managed THEN 0 ELSE powered'[a][r]
    <2> TAKE a \in Account, r \in Resource
    <2>1. limits'[a][r] = IF <<a, r>> \in managed THEN limits[a][r] ELSE powered'[a][r]
      BY <1>1, Zenon DEF Power!AdjustResources
    <2>2. <<a, r>> \in managed => limits[a][r] = 0
      BY DEF PowerInv
    <2> QED
      BY <2>1, <2>2
  <1>18. Power!TypeOK'
    <2>1. state' \in [Resource -> Power!Market]
      BY <1>1, <1>12, <1>13
    <2>2. reserv' \in [Resource -> Nat]
      BY <1>1, <1>15
    <2>3. powered' \in [Account -> [Resource -> Nat]]
      BY <1>1, <1>16
    <2>4. limits' \in [Account -> [Resource -> Nat]]
      BY <1>1, <1>16, <1>17 DEF Power!AdjustResources
    <2> QED
      BY <1>1, <1>2, <1>10, <2>1, <2>2, <2>3, <2>4, Zenon DEF Power!TypeOK, Order
  <1>19. \A r \in Resource : Sound(state[r])' /\ InUse(state[r])'
    BY <1>1, <1>11, <1>14 DEF Sound, InUse
  <1>20. PowerInv'
    <2>1. \A r \in Resource : state'[r].utilization = Sold(orders', r)
      BY <1>10, <1>11, <1>12
    <2>2. \A r \in Resource : reserv'[r] = state'[r].weight - state'[r].utilization
      BY <1>11, <1>15
    <2>3. \A a \in Account, r \in Resource :
            /\ powered'[a][r] = Bought(orders', a, r)
            /\ limits'[a][r] = IF <<a, r>> \in managed' THEN 0 ELSE Bought(orders', a, r)
      BY <1>1, <1>16, <1>17, ZenonT(60)
    <2>4. configured' /\ \A r \in Resource : Sound(state[r])' /\ InUse(state[r])'
      BY <1>1, <1>19
    <2> QED
      BY <1>18, <2>1, <2>2, <2>3, <2>4, Zenon DEF PowerInv
  <1>21. Power!PriceOutlivesUse
    <2> SUFFICES ASSUME NEW r \in Resource
                 PROVE  Power!UpdateUtilization(state[r]).adjusted_utilization
                          <= Power!UpdateUtilization(state'[r]).adjusted_utilization
      BY DEF Power!PriceOutlivesUse
    <2>1. Power!UpdateUtilization(new[r]) = new[r]
      BY <1>2, <1>5, <1>12, UpToDate
    <2>2. new[r].adjusted_utilization \in Nat
      BY <1>12 DEF Power!Market
    <2>3. new[r].adjusted_utilization = Power!UpdateUtilization(state[r]).adjusted_utilization
      BY <1>5, <1>12
    <2>4. state'[r] = new[r]
      BY <1>11
    <2> QED
      BY ONLY <2>1, <2>2, <2>3, <2>4
  <1> QED
    BY <1>20, <1>21

-----------------------------------------------------------------------------
(* Configuring the market.                                                 *)

\* What cfgpowerup starts from is a market whose utilization is that of the
\* moment.
LEMMA MarketBroughtUpToDate ==
  ASSUME Power!PowerupConstants, PowerInv, NEW r \in Resource
  PROVE  LET res == Power!BroughtUpToDate(r)
         IN  /\ res \in Power!Market
             /\ res.utilization = state[r].utilization
             /\ res.utilization_timestamp = now
             /\ configured => res.adjusted_utilization
                                = Power!UpdateUtilization(state[r]).adjusted_utilization
             /\ res.adjusted_utilization <= state[r].weight
  <1> DEFINE res == state[r]
             up == Power!UpdateUtilization(res)
  <1>1. /\ now \in 0 .. LastTime /\ now \in Nat
        /\ res \in Power!Market /\ configured \in BOOLEAN
    BY PowerInvTypes
  <1>2. Sound(res) /\ (configured => InUse(res))
    BY DEF PowerInv
  <1>3. CASE configured
    <2> DEFINE b == up.adjusted_utilization
               new == Power!UpdateWeight(up)
    <2>1. /\ Sound(up) /\ InUse(up) /\ up.utilization_timestamp = now
          /\ b \in Nat /\ (b <= res.adjusted_utilization \/ b <= res.utilization)
          /\ up = [res EXCEPT !.adjusted_utilization = b, !.utilization_timestamp = now]
      <3> HIDE DEF res
      <3> QED
        BY <1>1, <1>2, <1>3, AdjustedComesDown
    <2> HIDE DEF up, b
    <2>2. up.utilization = res.utilization
      BY <1>1, <2>1 DEF Power!Market
    <2>3. /\ Sound(new)
          /\ new.utilization = up.utilization
          /\ new.adjusted_utilization = up.adjusted_utilization
          /\ new.utilization_timestamp = up.utilization_timestamp
      BY <1>1, <2>1, WeightOnlyGrows
    <2>4. b <= res.weight
      BY <1>1, <1>2, <2>1 DEF Sound, HasCurve, Power!Market
    <2>5. Power!BroughtUpToDate(r) = new
      BY <1>3 DEF Power!BroughtUpToDate, up
    <2> HIDE DEF new
    <2>6. new \in Power!Market
      BY <2>3 DEF Sound, HasCurve
    <2> QED
      BY <1>3, <2>1, <2>2, <2>3, <2>4, <2>5, <2>6 DEF up, b
  <1>4. CASE ~configured
    <2> DEFINE new == [res EXCEPT !.utilization_timestamp = now]
    <2>1. Power!BroughtUpToDate(r) = new
      BY <1>4 DEF Power!BroughtUpToDate
    <2> HIDE DEF res
    <2>2. /\ new \in Power!Market /\ new.utilization = res.utilization
          /\ new.utilization_timestamp = now
          /\ new.adjusted_utilization = res.adjusted_utilization
      BY <1>1 DEF Power!Market
    <2>3. res.adjusted_utilization <= res.weight
      BY <1>2 DEF Sound, HasCurve
    <2> QED
      BY <1>4, <2>1, <2>2, <2>3 DEF res
  <1> QED
    BY <1>1, <1>3, <1>4

\* cfgpowerup leaves a sound market, unless less would be sold than is in use.
LEMMA MarketIsConfigured ==
  ASSUME Power!PowerupConstants, PowerInv, NEW r \in Resource, NEW c \in Configs,
         Power!MayConfigure(c, Power!BroughtUpToDate(r)),
         NEW new, new = Power!Capped(Power!Reconfigured(c, Power!BroughtUpToDate(r))),
         new.weight >= new.utilization
  PROVE  /\ Sound(new) /\ InUse(new)
         /\ new.utilization = state[r].utilization
         /\ new.utilization_timestamp = now
         /\ configured /\ new.weight = state[r].weight
              => new.adjusted_utilization
                   = Power!UpdateUtilization(state[r]).adjusted_utilization
  <1> DEFINE res == Power!BroughtUpToDate(r)
             ratio == Power!CurrentRatio(c, res)
             until == IF ratio = c.target_weight_ratio THEN now ELSE c.target_timestamp
             conf == [res EXCEPT
                        !.assumed_stake_weight = c.assumed_stake_weight,
                        !.initial_weight_ratio = ratio,
                        !.target_weight_ratio = c.target_weight_ratio,
                        !.initial_timestamp = now,
                        !.target_timestamp = until,
                        !.min_price = c.min_price,
                        !.max_price = c.max_price]
             full == Power!UpdateWeight(conf)
             a == res.adjusted_utilization
  <1>1. /\ res \in Power!Market
        /\ res.utilization = state[r].utilization
        /\ res.utilization_timestamp = now
        /\ configured => a = Power!UpdateUtilization(state[r]).adjusted_utilization
        /\ a <= state[r].weight
    BY MarketBroughtUpToDate
  <1>2. Power!MayConfigure(c, res) /\ new = Power!Capped(full)
    BY Zenon DEF Power!Reconfigured
  <1> HIDE DEF res
  <1>3. now \in Nat /\ state[r].weight \in Nat
    BY PowerInvTypes DEF Power!Market
  <1>4. /\ Frac \in Nat \ {0}
        /\ c.current_weight_ratio \in 0 .. Frac
        /\ c.target_weight_ratio \in 1 .. Frac
        /\ c.assumed_stake_weight \in Nat
        /\ c.target_timestamp \in Nat
        /\ c.max_price \in Nat /\ c.min_price \in Nat /\ c.min_price <= c.max_price
    BY PowerTypes
  <1>5. ratio \in 1 .. Frac
    <2>1. res.weight_ratio \in 0 .. Frac /\ res.initial_weight_ratio \in 1 .. Frac
      BY <1>1 DEF Power!Market
    <2> QED
      BY <1>4, <2>1 DEF Power!CurrentRatio
  <1>6. c.target_weight_ratio <= ratio
    BY <1>2 DEF Power!MayConfigure
  <1>7. until \in Nat
    BY <1>3, <1>4
  <1> HIDE DEF ratio, until
  <1>8. /\ conf \in Power!Market
        /\ conf.initial_weight_ratio = ratio /\ conf.target_weight_ratio = c.target_weight_ratio
        /\ conf.initial_timestamp = now
        /\ conf.min_price = c.min_price /\ conf.max_price = c.max_price
        /\ conf.utilization = res.utilization /\ conf.adjusted_utilization = a
        /\ conf.utilization_timestamp = res.utilization_timestamp
    BY <1>1, <1>3, <1>4, <1>5, <1>7 DEF Power!Market
  <1> HIDE DEF conf
  <1>9. /\ full \in Power!Market
        /\ full = [conf EXCEPT !.weight_ratio = RatioAt(conf, now), !.weight = full.weight]
        /\ InUse(full)
    <2>1. conf.target_weight_ratio <= conf.initial_weight_ratio /\ conf.initial_timestamp <= now
      BY <1>3, <1>6, <1>8
    <2> QED
      BY <1>3, <1>8, <2>1, WeightIsUpdated
  <1> HIDE DEF full
  <1>10. /\ full.initial_weight_ratio = ratio /\ full.target_weight_ratio = c.target_weight_ratio
         /\ full.initial_timestamp = now
         /\ full.min_price = c.min_price /\ full.max_price = c.max_price
         /\ full.utilization = res.utilization /\ full.adjusted_utilization = a
         /\ full.utilization_timestamp = res.utilization_timestamp
    BY <1>8, <1>9 DEF Power!Market
  <1>11. full.weight \in Nat /\ a \in Nat
    BY <1>1, <1>9 DEF Power!Market
  <1> DEFINE low == Power!Smaller(a, full.weight)
  <1>12. low \in Nat /\ low <= full.weight /\ (a <= full.weight => low = a)
    BY <1>11 DEF Power!Smaller
  <1>13. new = [full EXCEPT !.adjusted_utilization = low]
    BY <1>2, <1>9, <1>10 DEF Power!Capped, Power!Market
  <1> HIDE DEF low, a
  <1>14. /\ new \in Power!Market
         /\ new.adjusted_utilization = low
         /\ new.utilization = full.utilization /\ new.weight = full.weight
         /\ new.weight_ratio = full.weight_ratio
         /\ new.assumed_stake_weight = full.assumed_stake_weight
         /\ new.initial_timestamp = full.initial_timestamp
         /\ new.target_timestamp = full.target_timestamp
         /\ new.target_weight_ratio = full.target_weight_ratio
         /\ new.initial_weight_ratio = full.initial_weight_ratio
         /\ new.min_price = full.min_price /\ new.max_price = full.max_price
         /\ new.utilization_timestamp = full.utilization_timestamp
    BY <1>9, <1>12, <1>13 DEF Power!Market
  <1>15. Sound(new)
    <2>1. new.utilization <= new.weight
      BY <1>14 DEF Power!Market
    <2> QED
      BY <1>1, <1>3, <1>4, <1>6, <1>10, <1>12, <1>14, <2>1 DEF Sound, HasCurve
  <1>16. InUse(new)
    <2>1. RatioAt(new, now) = RatioAt(full, now)
      BY <1>14 DEF RatioAt
    <2> QED
      BY <1>9, <1>14, <2>1 DEF InUse
  <1> QED
    BY <1>1, <1>10, <1>12, <1>14, <1>15, <1>16 DEF a

\* No order taken out, nothing released.
LEMMA NothingReleased == \A r : Power!Released({}, r) = 0
  <1> TAKE r
  <1>1. [i \in {} |-> orders[i].weight[r]] = [i \in {} |-> 0]
    OBVIOUS
  <1>2. SumOf([i \in {} |-> 0]) = 0
    BY SumOfZeros
  <1> QED
    BY <1>1, <1>2, PowerSums, Zenon DEF Power!Released

\* cfgpowerup: what both markets gain or lose is settled with eosio.reserv.
LEMMA CfgPowerupStep ==
  ASSUME Power!PowerupConstants, PowerInv, NEW c \in [Resource -> Configs], NEW days \in Days,
         Power!CfgPowerup(c, days)
  PROVE  PowerInv' /\ Power!PriceOutlivesUse
  <1> DEFINE new == [r \in Resource |->
                       Power!Capped(Power!Reconfigured(c[r], Power!BroughtUpToDate(r)))]
  <1>1. /\ \A r \in Resource : /\ Power!MayConfigure(c[r], Power!BroughtUpToDate(r))
                               /\ new[r].weight >= new[r].utilization
        /\ state' = new /\ configured' = TRUE /\ powerup_days' = days
        /\ reserv' = [r \in Resource |-> reserv[r] + Power!Available({}, new, r)]
        /\ UNCHANGED <<orders, powered, managed, limits, now>>
    BY Zenon DEF Power!CfgPowerup
  <1>2. /\ orders \in Seq(Order) /\ managed \subseteq Account \X Resource
        /\ now \in 0 .. LastTime /\ now \in Nat /\ configured \in BOOLEAN
        /\ \A r \in Resource : reserv[r] \in Nat /\ state[r] \in Power!Market
    BY PowerInvTypes
  <1>3. \A r \in Resource :
          /\ Sound(new[r]) /\ InUse(new[r])
          /\ new[r].utilization = state[r].utilization
          /\ new[r].utilization_timestamp = now
          /\ configured /\ new[r].weight = state[r].weight
               => new[r].adjusted_utilization
                    = Power!UpdateUtilization(state[r]).adjusted_utilization
    <2> TAKE r \in Resource
    <2> DEFINE n == new[r]
               k == c[r]
    <2>1. /\ n = Power!Capped(Power!Reconfigured(k, Power!BroughtUpToDate(r)))
          /\ Power!MayConfigure(k, Power!BroughtUpToDate(r))
          /\ n.weight >= n.utilization /\ k \in Configs
      BY <1>1
    <2> HIDE DEF n, k
    <2>2. /\ Sound(n) /\ InUse(n)
          /\ n.utilization = state[r].utilization
          /\ n.utilization_timestamp = now
          /\ configured /\ n.weight = state[r].weight
               => n.adjusted_utilization
                    = Power!UpdateUtilization(state[r]).adjusted_utilization
      BY <2>1, MarketIsConfigured
    <2> QED
      BY <2>2 DEF n
  <1>4. new = [r \in Resource |-> new[r]] /\ \A r \in Resource : state'[r] = new[r]
    BY <1>1
  <1> HIDE DEF new
  <1>5. \A r \in Resource :
          /\ new[r] \in Power!Market /\ new[r].weight \in Nat /\ new[r].utilization \in Nat
          /\ new[r].utilization <= new[r].weight
    BY <1>3 DEF Sound, HasCurve, Power!Market
  <1>6. \A r \in Resource : /\ reserv'[r] = new[r].weight - new[r].utilization
                            /\ reserv'[r] \in Nat
    <2> TAKE r \in Resource
    <2>1. reserv'[r] = reserv[r] + Power!Available({}, new, r)
      BY <1>1
    <2>2. Power!Available({}, new, r) = 0 + (new[r].weight - state[r].weight)
      BY NothingReleased DEF Power!Available
    <2>3. /\ reserv[r] = state[r].weight - state[r].utilization
          /\ state[r].weight \in Nat /\ state[r].utilization \in Nat
      BY <1>2 DEF PowerInv, Power!Market
    <2>4. new[r].utilization = state[r].utilization
      BY <1>3
    <2> QED
      BY <1>5, <2>1, <2>2, <2>3, <2>4
  <1>7. \A r \in Resource : Sound(state[r])' /\ InUse(state[r])'
    BY <1>1, <1>3, <1>4 DEF Sound, InUse
  <1>8. Power!TypeOK'
    <2>1. state' \in [Resource -> Power!Market]
      BY <1>1, <1>4, <1>5
    <2>2. reserv' \in [Resource -> Nat]
      BY <1>1, <1>6
    <2>3. /\ powered \in [Account -> [Resource -> Nat]]
          /\ limits \in [Account -> [Resource -> Nat]]
      BY DEF PowerInv, Power!TypeOK
    <2>4. configured' \in BOOLEAN /\ powerup_days' \in Days
      BY <1>1
    <2> QED
      BY <1>1, <1>2, <2>1, <2>2, <2>3, <2>4, Zenon DEF Power!TypeOK, Order
  <1>9. PowerInv'
    <2>1. \A r \in Resource : state'[r].utilization = Sold(orders', r)
      BY <1>1, <1>3, <1>4 DEF PowerInv
    <2>2. \A r \in Resource : reserv'[r] = state'[r].weight - state'[r].utilization
      BY <1>4, <1>6
    <2>3. \A a \in Account, r \in Resource :
            /\ powered'[a][r] = Bought(orders', a, r)
            /\ limits'[a][r] = IF <<a, r>> \in managed' THEN 0 ELSE Bought(orders', a, r)
      BY <1>1 DEF PowerInv
    <2> QED
      BY <1>1, <1>7, <1>8, <2>1, <2>2, <2>3, Zenon DEF PowerInv
  <1>10. Power!PriceOutlivesUse
    <2> SUFFICES ASSUME NEW r \in Resource, configured, state'[r].weight = state[r].weight
                 PROVE  Power!UpdateUtilization(state[r]).adjusted_utilization
                          <= Power!UpdateUtilization(state'[r]).adjusted_utilization
      BY DEF Power!PriceOutlivesUse
    <2>1. Power!UpdateUtilization(new[r]) = new[r]
      BY <1>2, <1>3, UpToDate
    <2>2. new[r].adjusted_utilization \in Nat
      BY <1>5 DEF Power!Market
    <2>3. new[r].adjusted_utilization = Power!UpdateUtilization(state[r]).adjusted_utilization
      BY <1>3, <1>4
    <2>4. state'[r] = new[r]
      BY <1>4
    <2> QED
      BY ONLY <2>1, <2>2, <2>3, <2>4
  <1> QED
    BY <1>9, <1>10

-----------------------------------------------------------------------------
(* Limits set by hand, and time.                                           *)

\* A step that leaves the market, the queue and the time alone leaves the
\* price alone.
LEMMA PriceStands ==
  ASSUME Power!PowerupConstants, PowerInv, UNCHANGED <<state, now>>
  PROVE  Power!PriceOutlivesUse
  <1> SUFFICES ASSUME NEW r \in Resource
               PROVE  Power!UpdateUtilization(state[r]).adjusted_utilization
                        <= Power!UpdateUtilization(state'[r]).adjusted_utilization
    BY DEF Power!PriceOutlivesUse
  <1>1. Power!UpdateUtilization(state[r]).adjusted_utilization \in Nat
    <2>1. now \in 0 .. LastTime /\ Sound(state[r])
      BY PowerInvTypes DEF PowerInv
    <2> QED
      BY <2>1, AdjustedComesDown
  <1> QED
    BY <1>1

\* setacctnet and setacctcpu: a limit set by hand replaces what the orders
\* grant, and gives way to it again.
LEMMA ManageStep ==
  ASSUME Power!PowerupConstants, PowerInv, NEW a \in Account, NEW r \in Resource,
         Power!Manage(a, r) \/ Power!Release(a, r)
  PROVE  PowerInv' /\ Power!PriceOutlivesUse
  <1>1. UNCHANGED <<configured, state, powerup_days, orders, powered, reserv, now>>
    BY DEF Power!Manage, Power!Release
  <1>2. /\ \A b \in Account, s \in Resource :
             /\ powered[b][s] = Bought(orders, b, s) /\ powered[b][s] \in Nat
             /\ limits[b][s] = IF <<b, s>> \in managed THEN 0 ELSE powered[b][s]
        /\ limits \in [Account -> [Resource -> Nat]]
        /\ managed \subseteq Account \X Resource
    BY PowerInvTypes, ZenonT(60) DEF PowerInv, Power!TypeOK
  <1>3. \E n \in Nat : /\ limits' = [limits EXCEPT ![a][r] = n]
                       /\ n = IF <<a, r>> \in managed' THEN 0 ELSE powered[a][r]
    <2>1. CASE Power!Manage(a, r)
      BY <2>1 DEF Power!Manage
    <2>2. CASE Power!Release(a, r)
      BY <1>2, <2>2 DEF Power!Release
    <2> QED
      BY <2>1, <2>2
  <1>4. /\ managed' \subseteq Account \X Resource
        /\ \A b \in Account, s \in Resource :
             b # a \/ s # r => (<<b, s>> \in managed' <=> <<b, s>> \in managed)
    BY <1>2 DEF Power!Manage, Power!Release
  <1>5. /\ limits' \in [Account -> [Resource -> Nat]]
        /\ \A b \in Account, s \in Resource :
             limits'[b][s] = IF <<b, s>> \in managed' THEN 0 ELSE powered[b][s]
    <2>1. PICK n \in Nat : /\ limits' = [limits EXCEPT ![a][r] = n]
                           /\ n = IF <<a, r>> \in managed' THEN 0 ELSE powered[a][r]
      BY <1>3
    <2>2. limits' \in [Account -> [Resource -> Nat]]
      BY <1>2, <2>1
    <2>3. ASSUME NEW b \in Account, NEW s \in Resource
          PROVE  limits'[b][s] = IF <<b, s>> \in managed' THEN 0 ELSE powered[b][s]
      <3>1. CASE b = a /\ s = r
        BY <1>2, <2>1, <3>1
      <3>2. CASE b # a \/ s # r
        <4>1. limits'[b][s] = limits[b][s]
          BY <1>2, <2>1, <3>2
        <4> QED
          BY <1>2, <1>4, <3>2, <4>1
      <3> QED
        BY <3>1, <3>2
    <2> QED
      BY <2>2, <2>3
  <1>6. Power!TypeOK'
    BY <1>1, <1>4, <1>5 DEF PowerInv, Power!TypeOK
  <1>7. \A s \in Resource : Sound(state[s])' /\ (configured => InUse(state[s]))'
    BY <1>1 DEF PowerInv, Sound, InUse
  <1>8. PowerInv'
    BY <1>1, <1>2, <1>5, <1>6, <1>7 DEF PowerInv
  <1> QED
    BY <1>1, <1>8, PriceStands

\* As time passes the ratio of a market only comes down.
LEMMA NextSecondStep ==
  ASSUME Power!PowerupConstants, PowerInv, Power!NextSecond
  PROVE  PowerInv' /\ Power!PriceOutlivesUse
  <1>1. /\ now < LastTime /\ now' = now + 1
        /\ UNCHANGED <<configured, state, powerup_days, orders, powered, reserv, managed, limits>>
    BY DEF Power!NextSecond
  <1>2. now \in Nat /\ now' \in Nat /\ now' \in 0 .. LastTime /\ now <= now' /\ now' # now
    BY <1>1, PowerInvTypes, PowerTypes
  <1>3. \A r \in Resource : Sound(state[r])'
    <2> TAKE r \in Resource
    <2>1. Sound(state[r]) /\ state[r] \in Power!Market
      BY PowerInvTypes DEF PowerInv
    <2> QED
      BY <1>1, <1>2, <2>1 DEF Sound, Power!Market
  <1>4. configured => \A r \in Resource : InUse(state[r])'
    <2> SUFFICES ASSUME configured, NEW r \in Resource
                 PROVE  InUse(state[r])'
      OBVIOUS
    <2> DEFINE res == state[r]
    <2>1. Sound(res) /\ InUse(res) /\ res \in Power!Market
      BY PowerInvTypes DEF PowerInv
    <2> HIDE DEF res
    <2>2. /\ res.initial_weight_ratio \in Nat /\ res.target_weight_ratio \in Nat
          /\ res.target_weight_ratio <= res.initial_weight_ratio
          /\ res.initial_timestamp \in Nat /\ res.target_timestamp \in Nat
          /\ res.initial_timestamp <= now /\ res.weight_ratio \in Nat
      BY <2>1, PowerTypes DEF Sound, Power!Market
    <2>3. RatioAt(res, now') <= RatioAt(res, now) /\ RatioAt(res, now') \in Nat
          /\ RatioAt(res, now) \in Nat
      BY <1>2, <2>2, RatioComesDown
    <2>4. RatioAt(res, now') <= res.weight_ratio
      BY <2>1, <2>2, <2>3 DEF InUse
    <2>5. res = res'
      BY <1>1 DEF res
    <2> QED
      BY <2>1, <2>4, <2>5 DEF InUse, res
  <1>5. Power!TypeOK'
    BY <1>1, <1>2 DEF PowerInv, Power!TypeOK
  <1>6. PowerInv'
    BY <1>1, <1>3, <1>4, <1>5 DEF PowerInv
  <1>7. Power!PriceOutlivesUse
    BY <1>2 DEF Power!PriceOutlivesUse
  <1> QED
    BY <1>6, <1>7

\* Every step keeps the invariant and the price.
LEMMA PowerStep ==
  ASSUME Power!PowerupConstants, PowerInv, [Power!Next]_(Power!vars)
  PROVE  PowerInv' /\ [Power!PriceOutlivesUse]_(Power!vars)
  <1>1. CASE \E c \in [Resource -> Configs], d \in Days : Power!CfgPowerup(c, d)
    BY <1>1, CfgPowerupStep
  <1>2. CASE \E n \in Batches : Power!PowerupExec(n)
    BY <1>2, PowerupExecStep
  <1>3. CASE \E a \in Account, f \in [Resource -> Fractions] : Power!PowerUp(a, f)
    BY <1>3, PowerUpStep
  <1>4. CASE \E a \in Account, r \in Resource : Power!Manage(a, r) \/ Power!Release(a, r)
    BY <1>4, ManageStep
  <1>5. CASE Power!NextSecond
    BY <1>5, NextSecondStep
  <1>6. CASE UNCHANGED Power!vars
    <2>1. UNCHANGED <<configured, state, powerup_days, orders, powered, reserv, managed, limits, now>>
      BY <1>6 DEF Power!vars
    <2> QED
      BY <1>6, <2>1 DEF PowerInv, Power!TypeOK, Sound, InUse
  <1> QED
    BY <1>1, <1>2, <1>3, <1>4, <1>5, <1>6, Zenon DEF Power!Next

-----------------------------------------------------------------------------

\* Nothing that the power-up market sells is granted twice or lost: its
\* utilization is exactly what the orders in the queue have bought, eosio.reserv
\* owns exactly the rest of the weight, and every account is granted what its
\* orders bought, however late orders are taken out, however the market is
\* configured and however the adjusted utilization decays.
THEOREM PowerupSalesAreCovered ==
  ASSUME Power!PowerupConstants
  PROVE  Power!Spec => [](Power!TypeOK /\ Power!SalesAreCovered)
  <1>1. Power!Init => PowerInv
    BY PowerInit
  <1>2. PowerInv /\ [Power!Next]_(Power!vars) => PowerInv'
    BY PowerStep
  <1>3. PowerInv => Power!TypeOK /\ Power!SalesAreCovered
    BY PowerInvCovers
  <1> QED
    BY <1>1, <1>2, <1>3, PTL DEF Power!Spec

\* Splitting a purchase in two never makes it cheaper, and no fee leaves the
\* range between the minimum and the maximum price, in any market that can
\* come about.
THEOREM PowerupFeesAreFair ==
  ASSUME Power!PowerupConstants
  PROVE  Power!Spec => []Power!FeesAreFair
  <1>1. Power!Init => PowerInv
    BY PowerInit
  <1>2. PowerInv /\ [Power!Next]_(Power!vars) => PowerInv'
    BY PowerStep
  <1>3. PowerInv => Power!FeesAreFair
    <2> SUFFICES ASSUME PowerInv, NEW r \in Resource, state[r].weight > 0
                 PROVE  LET res == state[r]
                            free == res.weight - res.utilization
                        IN  /\ \A m \in 1 .. free, n \in 1 .. free :
                                 m + n <= free =>
                                   Power!Fee(res, m)
                                     + Power!Fee([res EXCEPT !.utilization = @ + m], n)
                                       >= Power!Fee(res, m + n)
                            /\ \A m \in 1 .. free :
                                 /\ Power!Fee(res, m) * res.weight >= res.min_price * m
                                 /\ (Power!Fee(res, m) - 1) * res.weight < res.max_price * m
      BY Zenon DEF Power!FeesAreFair
    <2>1. HasCurve(state[r])
      BY DEF PowerInv, Sound
    <2> QED
      BY <2>1, FeesOfMarket
  <1> QED
    BY <1>1, <1>2, <1>3, PTL DEF Power!Spec

\* The adjusted utilization that the next purchase finds never falls within a
\* second, neither by a purchase nor by orders that end: use that ends does not
\* lower the price at the moment it ends.
THEOREM PowerupPriceOutlivesUse ==
  ASSUME Power!PowerupConstants
  PROVE  Power!Spec => [][Power!PriceOutlivesUse]_(Power!vars)
  <1>1. Power!Init => PowerInv
    BY PowerInit
  <1>2. PowerInv /\ [Power!Next]_(Power!vars)
          => PowerInv' /\ [Power!PriceOutlivesUse]_(Power!vars)
    BY PowerStep
  <1> QED
    BY <1>1, <1>2, PTL DEF Power!Spec
==============================================================================
