------------------------------ MODULE PoolVotes ------------------------------
(***************************************************************************)
(* Voting with staking pools (staking_pool.cpp): votewithpool and          *)
(* regpoolproxy, and the bookkeeping through which every change of an      *)
(* account's shares reaches the producers and proxies it votes for.  An    *)
(* account has shares in each pool; its votes, and those a producer has,   *)
(* are numbers of shares pool by pool.                                     *)
(***************************************************************************)
EXTENDS LedgerArithmetic

CONSTANTS
  Account,    \* accounts that may stake and vote
  Producer,   \* accounts that may register as producers
  None,       \* no proxy
  Pool,       \* indices of the pools
  MinBallot,  \* producers that a ballot without a proxy names at least
  MaxBallot   \* and at most

PoolVotesConstants ==
  /\ IsFiniteSet(Account) /\ IsFiniteSet(Producer) /\ None \notin Account
  /\ Pool \subseteq Nat /\ IsFiniteSet(Pool)
  /\ MinBallot \in Nat /\ MaxBallot \in Nat

VARIABLES
  pool_voters,   \* accounts with a row in the poolvoter table
  owned_shares,  \* pool_voter::owned_shares
  is_proxy,      \* pool_voter::is_proxy
  proxy,         \* pool_voter::proxy
  producers,     \* pool_voter::producers
  books,         \* the voters' last_votes and proxied_shares, the producers'
                 \* pool_votes and staking_pool_state::total_votes
  upgraded,      \* registered producers whose rows have pool votes
  active         \* producer_info::is_active

ballots == <<proxy, producers>>
roster == <<upgraded, active>>
votingVars == <<pool_voters, owned_shares, is_proxy, ballots, books, roster>>

Shares == [Pool -> Int]
Books == [last_votes : [Account -> Shares], proxied_shares : [Account -> Shares],
          pool_votes : [Producer -> Shares], total_votes : Shares]

NoShares == [i \in Pool |-> 0]
Plus(x, y) == [i \in Pool |-> x[i] + y[i]]
Minus(x, y) == [i \in Pool |-> x[i] - y[i]]

-----------------------------------------------------------------------------

\* check_pool_requirements
check_pool_requirements(newProxy, newProducers) ==
  newProxy # None \/ Cardinality(newProducers) >= MinBallot

\* What an account votes with: its shares, and as a proxy those of others.
PoolVotesOf(b, a, shares, proxies) ==
  IF proxies[a] THEN Plus(shares[a], b.proxied_shares[a]) ELSE shares[a]

\* add_proxied_shares and sub_proxied_shares
AddProxied(b, q, deltas) == [b EXCEPT !.proxied_shares[q] = Plus(@, deltas)]
SubProxied(b, q, deltas) == [b EXCEPT !.proxied_shares[q] = Minus(@, deltas)]

\* add_pool_votes, for every producer of a ballot
AddPoolVotes(b, voted, deltas) ==
  [b EXCEPT
     !.pool_votes = [p \in Producer |-> IF p \in voted THEN Plus(@[p], deltas) ELSE @[p]],
     !.total_votes = [i \in Pool |-> @[i] + Cardinality(voted) * deltas[i]]]

\* sub_pool_votes, for every producer of a ballot
SubPoolVotes(b, voted, deltas) ==
  [b EXCEPT
     !.pool_votes = [p \in Producer |-> IF p \in voted THEN Minus(@[p], deltas) ELSE @[p]],
     !.total_votes = [i \in Pool |-> @[i] - Cardinality(voted) * deltas[i]]]

\* update_pool_proxy: a proxy's votes are replaced, along the proxies it votes
\* through itself, until they reach producers.
UpdatePoolProxy(books0, account, shares, proxies) ==
  LET pass[x \in Books \X Account] ==
        LET b == x[1]
            a == x[2]
            new == PoolVotesOf(b, a, shares, proxies)
            old == b.last_votes[a]
            passed == IF proxy[a] # None
                      THEN pass[<<AddProxied(SubProxied(b, proxy[a], old), proxy[a], new),
                                  proxy[a]>>]
                      ELSE AddPoolVotes(SubPoolVotes(b, producers[a], old), producers[a], new)
        IN  [passed EXCEPT !.last_votes[a] = new]
  IN  pass[<<books0, account>>]

\* Faulty: the proxy's old votes are taken back as they are now.
TakenBackAtPresent(b, a, shares) ==
  LET old == shares[a]
  IN  IF proxy[a] # None
      THEN UpdatePoolProxy(SubProxied(b, proxy[a], old), proxy[a], shares, is_proxy)
      ELSE SubPoolVotes(b, producers[a], old)

\* The books without an account's ballot, as it was last counted.
TakenBack(b, a, shares) ==
  LET old == b.last_votes[a]
  IN  IF proxy[a] # None
      THEN UpdatePoolProxy(SubProxied(b, proxy[a], old), proxy[a], shares, is_proxy)
      ELSE SubPoolVotes(b, producers[a], old)

\* update_pool_votes: the books after an account's ballot was replaced by
\* another, or by the same one with the shares it has now.
UpdatePoolVotes(b, a, newProxy, newProducers, shares) ==
  LET new == PoolVotesOf(b, a, shares, is_proxy)
      without == TakenBack(b, a, shares)
      with == IF newProxy # None
              THEN UpdatePoolProxy(AddProxied(without, newProxy, new), newProxy, shares, is_proxy)
              ELSE AddPoolVotes(without, newProducers, new)
  IN  [with EXCEPT !.last_votes[a] = new]

\* What update_pool_votes checks.
ValidPoolBallot(a, newProxy, newProducers, voting) ==
  IF newProxy # None
  THEN /\ newProducers = {}
       /\ newProxy # a
       /\ ~is_proxy[a]
       /\ newProxy \in pool_voters
       /\ voting => is_proxy[newProxy]
  ELSE /\ Cardinality(newProducers) <= MaxBallot
       /\ newProducers \subseteq IF voting THEN active ELSE upgraded

\* The part of update_pool_votes that every change of an account's shares
\* ends with: its ballot stays.
Recounted(b, a, shares) == UpdatePoolVotes(b, a, proxy[a], producers[a], shares)
MayBeRecounted(a) == ValidPoolBallot(a, proxy[a], producers[a], FALSE)

-----------------------------------------------------------------------------

VotingInit ==
  /\ pool_voters = {}
  /\ owned_shares = [a \in Account |-> NoShares]
  /\ is_proxy = [a \in Account |-> FALSE]
  /\ proxy = [a \in Account |-> None]
  /\ producers = [a \in Account |-> {}]
  /\ books = [last_votes |-> [a \in Account |-> NoShares],
              proxied_shares |-> [a \in Account |-> NoShares],
              pool_votes |-> [p \in Producer |-> NoShares],
              total_votes |-> NoShares]
  /\ upgraded = {}
  /\ active = {}

VoteWithPool(a, newProxy, newProducers) ==
  /\ check_pool_requirements(newProxy, newProducers)
  /\ ValidPoolBallot(a, newProxy, newProducers, TRUE)
  /\ pool_voters' = pool_voters \union {a}
  /\ books' = UpdatePoolVotes(books, a, newProxy, newProducers, owned_shares)
  /\ proxy' = [proxy EXCEPT ![a] = newProxy]
  /\ producers' = [producers EXCEPT ![a] = newProducers]
  /\ UNCHANGED <<owned_shares, is_proxy, roster>>

\* The check of regpoolproxy.
MayBeProxy(a, isproxy) == isproxy => proxy[a] = None

RegPoolProxy(a, isproxy) ==
  /\ MayBeProxy(a, isproxy)
  /\ pool_voters' = pool_voters \union {a}
  /\ is_proxy' = [is_proxy EXCEPT ![a] = isproxy]
  /\ books' = UpdatePoolProxy(books, a, owned_shares, is_proxy')
  /\ UNCHANGED <<owned_shares, ballots, roster>>

\* regproducer, since the pools exist; PoolTable has the rest of it.
RegProducer(p) ==
  /\ upgraded' = upgraded \union {p}
  /\ active' = active \union {p}
  /\ UNCHANGED <<pool_voters, owned_shares, is_proxy, ballots, books>>

\* deactivate_producer, called by unregprod and rmvproducer.
Deactivate(p) ==
  /\ active' = active \ {p}
  /\ UNCHANGED <<pool_voters, owned_shares, is_proxy, ballots, books, upgraded>>

VotingNext ==
  \/ \E a \in Account :
       \/ \E q \in Account \union {None}, ps \in SUBSET Producer : VoteWithPool(a, q, ps)
       \/ \E b \in BOOLEAN : RegPoolProxy(a, b)
  \/ \E p \in Producer : RegProducer(p)
  \/ \E p \in upgraded : Deactivate(p)

-----------------------------------------------------------------------------

VotingTypeOK ==
  /\ pool_voters \subseteq Account
  /\ owned_shares \in [Account -> [Pool -> Nat]]
  /\ is_proxy \in [Account -> BOOLEAN]
  /\ proxy \in [Account -> Account \union {None}]
  /\ producers \in [Account -> SUBSET Producer]
  /\ books \in [last_votes : [Account -> [Pool -> Nat]],
                proxied_shares : [Account -> [Pool -> Nat]],
                pool_votes : [Producer -> [Pool -> Nat]],
                total_votes : [Pool -> Nat]]
  /\ active \subseteq upgraded /\ upgraded \subseteq Producer

\* In one pool, the votes last counted for the accounts in a set; the others
\* count nothing.
LastVotesOf(S, i) ==
  [a \in Account |-> IF a \in S THEN books.last_votes[a][i] ELSE 0]

\* A proxy speaks for exactly the votes last cast through it, whoever staked,
\* claimed, transferred, changed proxies or unregistered since.
ProxiedSharesAddUp ==
  \A q \in Account, i \in Pool :
    books.proxied_shares[q][i] = SumOf(LastVotesOf({a \in Account : proxy[a] = q}, i))

\* A producer has exactly the votes last cast for it, directly or at the end
\* of a chain of proxies.
PoolVotesAddUp ==
  \A p \in Producer, i \in Pool :
    books.pool_votes[p][i] = SumOf(LastVotesOf({a \in Account : p \in producers[a]}, i))

\* total_votes, by which updatepay decides who is paid, is the sum of the
\* producers' votes.
TotalVotesAddUp ==
  \A i \in Pool :
    books.total_votes[i] = SumOf([p \in Producer |-> books.pool_votes[p][i]])

\* Votes never lag behind: what was last counted for an account are the shares
\* it owns now and, while it is a proxy, those cast through it.
VotesAreShares ==
  \A a \in Account : books.last_votes[a] = PoolVotesOf(books, a, owned_shares, is_proxy)

\* No accounts vote through one another in a circle, along which
\* update_pool_proxy would call itself for ever.
NoProxyCircle ==
  \A S \in SUBSET Account : S # {} => \E a \in S : proxy[a] \notin S

\* Every cast ballot would be accepted again: nobody is kept from staking,
\* claiming or transferring by the vote it has cast.
PoolBallotsStayValid ==
  \A a \in Account :
    /\ ~(is_proxy[a] /\ proxy[a] # None)
    /\ MayBeRecounted(a)

\* Whatever changes shares, ballots or proxies, every vote counts exactly once
\* at each level, and no ballot keeps its voter from moving stake.
PoolVotesAreSound ==
  /\ ProxiedSharesAddUp /\ PoolVotesAddUp /\ TotalVotesAddUp /\ VotesAreShares
  /\ NoProxyCircle /\ PoolBallotsStayValid
==============================================================================
