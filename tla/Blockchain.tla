----------------------------- MODULE Blockchain -----------------------------
(***************************************************************************)
(* p2p/blockchain.py as blockchain_node.py runs it, over the block routes  *)
(* of p2p/network.py.  A node has a thread that mines, one that serves     *)
(* HTTP and one that asks the peers for blocks; they share the chain, the  *)
(* orphans and the mempool, and no lock.  A block's hash covers the        *)
(* difficulty bits in its header, which _adjust_difficulty() overwrites in *)
(* the block that is already on the chain.  What a thread does from its    *)
(* append to its save is not interleaved with the node's other threads;    *)
(* the broadcast, which takes seconds, is.                                 *)
(***************************************************************************)
EXTENDS Integers, Sequences, SequencesExt, FiniteSets

CONSTANTS
    Nodes,
    Txs,        \* transactions that clients submit, to any node, any number of times
    MaxBlocks,  \* blocks mined in a behaviour, at most
    Interval,   \* DIFFICULTY_ADJUSTMENT_INTERVAL
    Halving,    \* HALVING_INTERVAL
    Crashes     \* crashes in a behaviour, at most

\* The genesis block that a node makes for itself has the node in its hash, a
\* mined block its number: no block is both.
ASSUME BlockchainAssumption ==
    /\ MaxBlocks \in Nat /\ Crashes \in Nat /\ Interval \in Nat \ {0} /\ Halving \in Nat \ {0}
    /\ Nodes \cap Nat = {}

VARIABLES
    block,      \* what was mined: the hash before it, the transactions, the reward
    chain,      \* per node, the chain as hashes; a hash is <<id, bits overwritten>>
    orphans,    \* per node, blocks kept aside; all of them pass the proof of work
    mempool,
    confirmed,  \* per node, _confirmed_tx
    halvings,   \* per node, what _block_reward stands at
    at,         \* per node and thread, where it stands
    work,       \* per node, what mine_block() read before it hashed, and its find
    todo,       \* per node, blocks the sync thread has fetched and not added yet
    net,        \* per node, blocks posted to it
    saved,      \* per node, how many blocks of the chain blockchain.json holds
    crashes     \* history: how many so far

memVars == <<chain, orphans, mempool, confirmed, halvings>>
vars == <<block, memVars, at, work, todo, net, saved, crashes>>

Threads == {"miner", "server", "sync"}
Genesis == <<0, 0>>
NoWork == [prev |-> Genesis, txs |-> {}, halvings |-> 0, found |-> 0]

Mined == DOMAIN block
Hash(b) == <<b, 0>>                     \* of a block as it was mined
Tip(n) == Last(chain[n])
Height(n) == Len(chain[n]) - 1
Go(n, th, place) == at' = [at EXCEPT ![n][th] = place]
Busy(n) == \E th \in Threads : at[n][th] = "resolve"

\* The nodes start from one genesis block: one made it, the others got a copy
\* of its file.
Init ==
    /\ block = <<>>
    /\ chain = [n \in Nodes |-> <<Genesis>>]
    /\ orphans = [n \in Nodes |-> {}]
    /\ mempool = [n \in Nodes |-> {}]
    /\ confirmed = [n \in Nodes |-> {}]
    /\ halvings = [n \in Nodes |-> 0]
    /\ at = [n \in Nodes |-> [th \in Threads |-> "idle"]]
    /\ work = [n \in Nodes |-> NoWork]
    /\ todo = [n \in Nodes |-> <<>>]
    /\ net = [n \in Nodes |-> {}]
    /\ saved = [n \in Nodes |-> 1]
    /\ crashes = 0

(***************************************************************************)
(* The mempool                                                             *)
(***************************************************************************)

\* Mutant of Submit: _confirmed_tx is not looked at.
SubmitAgain(n, t) ==
    /\ t \notin mempool[n]
    /\ mempool' = [mempool EXCEPT ![n] = @ \cup {t}]
    /\ UNCHANGED <<block, chain, orphans, confirmed, halvings, at, work, todo, net, saved, crashes>>

\* add_transaction(), of a transaction that is signed and can pay its fee.
Submit(n, t) ==
    /\ t \notin mempool[n] \cup confirmed[n]
    /\ mempool' = [mempool EXCEPT ![n] = @ \cup {t}]
    /\ UNCHANGED <<block, chain, orphans, confirmed, halvings, at, work, todo, net, saved, crashes>>

\* A transaction expires, or makes room for one that pays more.
Drop(n, t) ==
    /\ t \in mempool[n]
    /\ mempool' = [mempool EXCEPT ![n] = @ \ {t}]
    /\ UNCHANGED <<block, chain, orphans, confirmed, halvings, at, work, todo, net, saved, crashes>>

(***************************************************************************)
(* add_block()                                                             *)
(***************************************************************************)

\* _validate_block() of a block as it was mined: its reward is the one of the
\* next height of this chain.  Signatures, balances and whether a transaction
\* is on the chain already are not looked at.
ValidOn(c, r) == r.halvings = Len(c) \div Halving

\* Mutant of ChainWith: a chain of the same length is preferred as well.
ChainWithEqual(c, b, r) ==
    LET forks == {i \in 1..Len(c) : c[i] = r.prev}
        new(i) == Append(SubSeq(c, 1, i), Hash(b))
    IN  IF \E i \in forks : Len(new(i)) >= Len(c)
        THEN new(CHOOSE i \in forks : Len(new(i)) >= Len(c))
        ELSE c

\* The chain after block b: the branch for the tip, and the one for a fork,
\* that is taken if it makes the chain longer.
ChainWith(c, b, r) ==
    LET forks == {i \in 1..Len(c) : c[i] = r.prev}
        new(i) == Append(SubSeq(c, 1, i), Hash(b))
    IN  IF \E i \in forks : Len(new(i)) > Len(c)
        THEN new(CHOOSE i \in forks : Len(new(i)) > Len(c))
        ELSE c

\* Mutant of Take: the block's transactions stay in the mempool.
TakeKeeping(n, b, r) ==
    /\ chain' = [chain EXCEPT ![n] = ChainWith(@, b, r)]
    /\ confirmed' = [confirmed EXCEPT ![n] = @ \cup r.txs]
    /\ UNCHANGED mempool

\* _append_block() and _process_block_transactions().
Take(n, b, r) ==
    /\ chain' = [chain EXCEPT ![n] = ChainWith(@, b, r)]
    /\ confirmed' = [confirmed EXCEPT ![n] = @ \cup r.txs]
    /\ mempool' = [mempool EXCEPT ![n] = @ \ r.txs]

\* A thread of node n calls add_block() with block b, which is r: next is
\* where it stands when the block went on the chain, back when it did not.
AddBlock(n, th, b, r, next, back) ==
    \/ /\ ValidOn(chain[n], r)
       /\ ChainWith(chain[n], b, r) # chain[n]
       /\ Take(n, b, r)
       /\ Go(n, th, next)
       /\ UNCHANGED orphans
    \/ /\ ValidOn(chain[n], r)
       /\ ChainWith(chain[n], b, r) = chain[n]
       /\ orphans' = [orphans EXCEPT ![n] = @ \cup {b}]
       /\ Go(n, th, back)
       /\ UNCHANGED <<chain, confirmed, mempool>>
    \/ /\ ~ValidOn(chain[n], r)
       /\ Go(n, th, back)
       /\ UNCHANGED <<chain, confirmed, mempool, orphans>>

\* _resolve_orphans(): whichever fits comes next.
Fits(n, b) == block[b].prev = Tip(n) /\ ValidOn(chain[n], block[b])
Resolve(n, th, b) ==
    /\ at[n][th] = "resolve"
    /\ b \in orphans[n]
    /\ Fits(n, b)
    /\ Take(n, b, block[b])
    /\ orphans' = [orphans EXCEPT ![n] = @ \ {b}]
    /\ UNCHANGED <<block, halvings, at, work, todo, net, saved, crashes>>

\* Mutant of Adjusted: the bits go to the block before the tip.
AdjustedBefore(c) ==
    IF Len(c) > 1 /\ (Len(c) - 1) % Interval = 0
    THEN [c EXCEPT ![Len(c) - 1] = <<@[1], 1>>] ELSE c

\* _adjust_difficulty(): new bits in the tip, and with them a new hash.
Adjusted(c) ==
    IF Len(c) > 1 /\ (Len(c) - 1) % Interval = 0
    THEN [c EXCEPT ![Len(c)] = <<@[1], 1>>] ELSE c

\* No orphan fits any more: adjust, and _save().
Settle(n, th) ==
    /\ at[n][th] = "resolve"
    /\ \A b \in orphans[n] : ~Fits(n, b)
    /\ chain' = [chain EXCEPT ![n] = Adjusted(@)]
    /\ halvings' = [halvings EXCEPT ![n] =
                       IF Adjusted(chain[n]) # chain[n] THEN Height(n) \div Halving ELSE @]
    /\ saved' = [saved EXCEPT ![n] = Len(chain[n])]
    /\ Go(n, th, IF th = "sync" /\ todo[n] # <<>> THEN "next" ELSE "idle")
    /\ UNCHANGED <<block, orphans, mempool, confirmed, work, todo, net, crashes>>

(***************************************************************************)
(* The mining thread                                                       *)
(***************************************************************************)

\* mine_block() reads the tip and the mempool, and then hashes for minutes.
Mine(n) ==
    /\ at[n]["miner"] = "idle"
    /\ ~Busy(n)
    /\ Len(block) < MaxBlocks
    /\ work' = [work EXCEPT ![n] = [prev |-> Tip(n), txs |-> mempool[n],
                                    halvings |-> halvings[n], found |-> 0]]
    /\ Go(n, "miner", "hash")
    /\ UNCHANGED <<block, memVars, todo, net, saved, crashes>>

\* It gives up after 500000 nonces, or finds one.
GiveUp(n) ==
    /\ at[n]["miner"] = "hash"
    /\ work' = [work EXCEPT ![n] = NoWork]
    /\ Go(n, "miner", "idle")
    /\ UNCHANGED <<block, memVars, todo, net, saved, crashes>>

\* What it finds goes through add_block() like any other block.
Found(n) ==
    /\ at[n]["miner"] = "hash"
    /\ ~Busy(n)
    /\ Len(block) < MaxBlocks
    /\ block' = Append(block, [prev |-> work[n].prev, txs |-> work[n].txs,
                               halvings |-> work[n].halvings])
    /\ work' = [work EXCEPT ![n] = [NoWork EXCEPT !.found = Len(block')]]
    /\ AddBlock(n, "miner", Len(block'), block'[Len(block')], "cast", "idle")
    /\ UNCHANGED <<halvings, todo, net, saved, crashes>>

\* broadcast_block(): a post to every peer, which some may not get.  The
\* thread is at it for seconds while the node's other threads go on.
Broadcast(n) ==
    /\ at[n]["miner"] = "cast"
    /\ ~Busy(n)
    /\ \E S \in SUBSET (Nodes \ {n}) :
          net' = [m \in Nodes |-> IF m \in S THEN net[m] \cup {work[n].found} ELSE net[m]]
    /\ work' = [work EXCEPT ![n] = NoWork]
    /\ Go(n, "miner", "resolve")
    /\ UNCHANGED <<block, memVars, todo, saved, crashes>>

(***************************************************************************)
(* The HTTP thread and the sync thread                                     *)
(***************************************************************************)

\* POST /p2p/block.  What comes in this way is not passed on.
Receive(n, b) ==
    /\ at[n]["server"] = "idle"
    /\ ~Busy(n)
    /\ b \in net[n]
    /\ net' = [net EXCEPT ![n] = @ \ {b}]
    /\ AddBlock(n, "server", b, block[b], "resolve", "idle")
    /\ UNCHANGED <<block, halvings, work, todo, saved, crashes>>

\* Mutant of Fetch: the peer's last block is not asked for.
FetchShort(n, m) ==
    /\ at[n]["sync"] = "idle"
    /\ Height(m) > Height(n)
    /\ \A p \in Nodes \ {n} : Height(p) <= Height(m)
    /\ todo' = [todo EXCEPT ![n] = SubSeq(chain[m], Len(chain[n]), Height(m))]
    /\ Go(n, "sync", "next")
    /\ UNCHANGED <<block, memVars, work, net, saved, crashes>>

\* _sync_blocks_from_peers(): of the peers that are higher a highest one is
\* asked for its blocks, from this node's height on.
Fetch(n, m) ==
    /\ at[n]["sync"] = "idle"
    /\ Height(m) > Height(n)
    /\ \A p \in Nodes \ {n} : Height(p) <= Height(m)
    /\ todo' = [todo EXCEPT ![n] = SubSeq(chain[m], Len(chain[n]), Len(chain[m]))]
    /\ Go(n, "sync", "next")
    /\ UNCHANGED <<block, memVars, work, net, saved, crashes>>

\* A block whose bits were overwritten comes with a hash that nobody worked
\* for: it fails the proof of work.  A genesis block never fits anywhere.
Mineable(h) == h[1] \in Mined /\ h[2] = 0

AddFetched(n) ==
    LET next == IF Len(todo[n]) = 1 THEN "idle" ELSE "next"
    IN  /\ at[n]["sync"] = "next"
        /\ ~Busy(n)
        /\ todo' = [todo EXCEPT ![n] = Tail(@)]
        /\ \/ /\ Mineable(Head(todo[n]))
              /\ AddBlock(n, "sync", Head(todo[n])[1], block[Head(todo[n])[1]], "resolve", next)
           \/ /\ ~Mineable(Head(todo[n]))
              /\ Go(n, "sync", next)
              /\ UNCHANGED <<chain, confirmed, mempool, orphans>>
        /\ UNCHANGED <<block, halvings, work, net, saved, crashes>>

(***************************************************************************)
(* The process ends at any point and is started again                      *)
(***************************************************************************)

\* _load().  A blockchain.json that was being written does not parse: the node
\* makes a genesis block of its own.  mempool.json holds what the mempool held
\* at some save; the confirmed hashes are not kept.
Crash(n, torn) ==
    LET c == IF torn THEN <<<<n, 0>>>> ELSE SubSeq(chain[n], 1, saved[n])
    IN  /\ crashes < Crashes
        /\ torn => Busy(n)
        /\ crashes' = crashes + 1
        /\ chain' = [chain EXCEPT ![n] = c]
        /\ saved' = [saved EXCEPT ![n] = Len(c)]
        /\ \E txs \in SUBSET Txs : mempool' = [mempool EXCEPT ![n] = txs]
        /\ confirmed' = [confirmed EXCEPT ![n] = {}]
        /\ orphans' = [orphans EXCEPT ![n] = {}]
        /\ halvings' = [halvings EXCEPT ![n] = (Len(c) - 1) \div Halving]
        /\ at' = [at EXCEPT ![n] = [th \in Threads |-> "idle"]]
        /\ work' = [work EXCEPT ![n] = NoWork]
        /\ todo' = [todo EXCEPT ![n] = <<>>]
        /\ net' = [net EXCEPT ![n] = {}]
        /\ UNCHANGED block

AddSteps(n, th) ==
    \/ \E b \in Mined : Resolve(n, th, b)
    \/ Settle(n, th)

SyncSteps(n) ==
    \/ \E m \in Nodes : Fetch(n, m)
    \/ AddFetched(n) \/ AddSteps(n, "sync")

Next ==
    \/ \E n \in Nodes, t \in Txs : Submit(n, t) \/ Drop(n, t)
    \/ \E n \in Nodes : Mine(n) \/ GiveUp(n) \/ Found(n) \/ Broadcast(n)
    \/ \E n \in Nodes, b \in Mined : Receive(n, b)
    \/ \E n \in Nodes : SyncSteps(n)
    \/ \E n \in Nodes : \E th \in Threads \ {"sync"} : AddSteps(n, th)
    \/ \E n \in Nodes, torn \in BOOLEAN : Crash(n, torn)

\* Every node's threads go on: a peer that is higher is asked for its blocks
\* again and again, and who has appended a block gets to save it.  Nobody has
\* to mine.
Spec ==
    /\ Init /\ [][Next]_vars
    /\ \A n \in Nodes :
          WF_vars(SyncSteps(n) \/ \E th \in Threads : AddSteps(n, th))

-----------------------------------------------------------------------------

\* Types; and what is set aside, posted or fetched was mined.
TypeOK ==
    /\ Mined = 1..Len(block) /\ Len(block) <= MaxBlocks
    /\ \A b \in Mined : block[b].txs \subseteq Txs
    /\ \A n \in Nodes :
          /\ Len(chain[n]) > 0
          /\ orphans[n] \cup net[n] \subseteq Mined
          /\ mempool[n] \cap confirmed[n] = {} \/ crashes > 0
          /\ at[n] \in [Threads -> {"idle", "hash", "cast", "resolve", "next"}]
          /\ at[n]["sync"] = "next" => todo[n] # <<>>
          /\ at[n]["miner"] = "cast" => work[n].found \in Mined
          /\ saved[n] \in 1..Len(chain[n])

\* Every block on a chain holds the hash that the block before it has on that
\* chain, although difficulty adjustment changes hashes after the fact, and
\* although other threads append and adjust while a broadcast lasts.
Linked ==
    \A n \in Nodes : \A i \in 2..Len(chain[n]) :
        block[chain[n][i][1]].prev = chain[n][i - 1]

\* While a node runs, a block that is on its chain stays there, and so does
\* its hash once another block stands on it.
AppendOnly ==
    [][\A n \in Nodes : \/ crashes' # crashes
                        \/ /\ IsPrefix(Front(chain[n]), chain'[n])
                           /\ Len(chain[n]) <= Len(chain'[n])
                           /\ Tip(n)[1] = chain'[n][Len(chain[n])][1]]_vars

\* As long as no node was restarted, no chain carries a transaction twice,
\* whichever nodes it was submitted to, however often, and whatever was mined
\* while a block with it was on its way.
TxOnce ==
    crashes = 0 => \A n \in Nodes : \A i, j \in 2..Len(chain[n]) :
        i # j => block[chain[n][i][1]].txs \cap block[chain[n][j][1]].txs = {}

\* A node that is behind the one highest peer on the same chain gets its
\* blocks, up to the first one whose bits the peer has overwritten, although
\* its own miner, its orphans and restarts are in the way.
Behind(n) == \E m \in Nodes :
    /\ IsStrictPrefix(chain[n], chain[m])
    /\ Mineable(chain[m][Len(chain[n]) + 1])
    /\ \A p \in Nodes \ {n, m} : Height(p) < Height(m)
CatchUp == \A n \in Nodes : Behind(n) ~> ~Behind(n)

\* "Longest chain rule fork resolution" (p2p/blockchain.py:11): a node whose
\* chain is the shorter one does not stay behind for ever.
Shorter(n) == \E m \in Nodes : Height(n) < Height(m)
LongestAdopted == \A n \in Nodes : Shorter(n) ~> ~Shorter(n)
=============================================================================
