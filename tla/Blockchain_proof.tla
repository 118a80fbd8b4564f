-------------------------- MODULE Blockchain_proof --------------------------
(***************************************************************************)
(* Proofs about Blockchain: types, the links of the chains, that a running *)
(* node only ever appends, that no chain carries a transaction twice, and  *)
(* that chains which share a block share all that is below it.             *)
(***************************************************************************)
EXTENDS Blockchain, SequenceTheorems, TLAPS

(***************************************************************************)
(* Sequences.                                                              *)
(***************************************************************************)

\* A chain has a tip.
LEMMA LastOK ==
  ASSUME NEW S, NEW s \in Seq(S), s # <<>>
  PROVE  Len(s) \in Nat \ {0} /\ Last(s) \in S /\ Last(s) = s[Len(s)]
  <1>1. Len(s) \in Nat /\ Len(s) # 0
    OBVIOUS
  <1> QED
    BY <1>1 DEF Last

\* What is left after cutting a chain off.
LEMMA CutOK ==
  ASSUME NEW S, NEW s \in Seq(S), NEW k \in 0..Len(s)
  PROVE  /\ SubSeq(s, 1, k) \in Seq(S) /\ Len(SubSeq(s, 1, k)) = k
         /\ \A i \in 1..k : SubSeq(s, 1, k)[i] = s[i]
  <1>1. \A i \in 1..k : s[i] \in S
    OBVIOUS
  <1>2. Len(s) \in Nat /\ k \in Int /\ 1 \in Int
    OBVIOUS
  <1>3. /\ SubSeq(s, 1, k) \in Seq(S)
        /\ Len(SubSeq(s, 1, k)) = IF 1 <= k THEN k - 1 + 1 ELSE 0
        /\ \A i \in 1..(k - 1 + 1) : SubSeq(s, 1, k)[i] = s[1 + i - 1]
    BY <1>1, <1>2, SubSeqProperties
  <1> QED
    BY <1>2, <1>3

\* A fork is never adopted: a block goes on top of the tip or not at all.
LEMMA ChainWithOK ==
  ASSUME NEW S, NEW c \in Seq(S), c # <<>>, NEW b, Hash(b) \in S, NEW r
  PROVE  \/ ChainWith(c, b, r) = c
         \/ ChainWith(c, b, r) = Append(c, Hash(b)) /\ r.prev = Last(c)
  <1> DEFINE forks == {i \in 1..Len(c) : c[i] = r.prev}
             new(i) == Append(SubSeq(c, 1, i), Hash(b))
  <1>1. CASE \E i \in forks : Len(new(i)) > Len(c)
    <2>1. PICK i \in forks : /\ Len(new(i)) > Len(c)
                             /\ ChainWith(c, b, r) = new(i)
      BY <1>1 DEF ChainWith
    <2>2. Len(c) \in Nat /\ i \in 1..Len(c)
      OBVIOUS
    <2>3. SubSeq(c, 1, i) \in Seq(S) /\ Len(SubSeq(c, 1, i)) = i
      BY <2>2, CutOK
    <2>4. Len(new(i)) = i + 1
      BY <2>3
    <2>5. i = Len(c)
      BY <2>1, <2>2, <2>4
    <2>6. SubSeq(c, 1, i) = c
      BY <2>5, SubSeqFull
    <2> QED
      BY <2>1, <2>5, <2>6 DEF Last
  <1>2. CASE ~ \E i \in forks : Len(new(i)) > Len(c)
    BY <1>2 DEF ChainWith
  <1> QED
    BY <1>1, <1>2

(***************************************************************************)
(* Types.                                                                  *)
(***************************************************************************)

\* The id in a hash is that of a mined block, or 0 or a node: a genesis block.
Hashes == (Nodes \cup Nat) \X {0, 1}
Blocks == [prev : Hashes, txs : SUBSET Txs, halvings : Int]
Works == [prev : Hashes, txs : SUBSET Txs, halvings : Int, found : Nat]
Places == {"idle", "hash", "cast", "resolve", "next"}

BlockTypes == block \in Seq(Blocks) /\ Len(block) <= MaxBlocks
ChainTypes == /\ chain \in [Nodes -> Seq(Hashes)]
              /\ \A n \in Nodes : chain[n] # <<>>
SavedTypes == /\ saved \in [Nodes -> Nat]
              /\ \A n \in Nodes : saved[n] \in 1..Len(chain[n])
PoolTypes == /\ mempool \in [Nodes -> SUBSET Txs]
             /\ confirmed \in [Nodes -> SUBSET Txs]
             /\ crashes \in Nat
             /\ \A n \in Nodes : mempool[n] \cap confirmed[n] = {} \/ crashes > 0
KeptTypes == /\ orphans \in [Nodes -> SUBSET Nat] /\ net \in [Nodes -> SUBSET Nat]
             /\ \A n \in Nodes : orphans[n] \cup net[n] \subseteq Mined
WorkTypes == halvings \in [Nodes -> Int] /\ work \in [Nodes -> Works]
ThreadTypes == /\ at \in [Nodes -> [Threads -> Places]]
               /\ todo \in [Nodes -> Seq(Hashes)]
               /\ \A n \in Nodes :
                    /\ at[n]["sync"] = "next" => todo[n] # <<>>
                    /\ at[n]["miner"] = "cast" => work[n].found \in Mined

Types == /\ BlockTypes /\ ChainTypes /\ SavedTypes /\ PoolTypes
         /\ KeptTypes /\ WorkTypes /\ ThreadTypes

\* Blocks are numbered as they were mined.
LEMMA MinedOK ==
  ASSUME BlockTypes
  PROVE  /\ Len(block) \in Nat /\ Mined = 1..Len(block)
         /\ \A b \in Mined : /\ b \in Nat \ {0} /\ block[b] \in Blocks
                             /\ block[b].txs \subseteq Txs /\ block[b].prev \in Hashes
  <1>1. Len(block) \in Nat /\ Mined = 1..Len(block)
    BY LenProperties DEF BlockTypes, Mined
  <1>2. ASSUME NEW b \in Mined
        PROVE  /\ b \in Nat \ {0} /\ block[b] \in Blocks
               /\ block[b].txs \subseteq Txs /\ block[b].prev \in Hashes
    <2>1. b \in 1..Len(block)
      BY <1>1, <1>2
    <2>2. block[b] \in Blocks
      BY <2>1, ElementOfSeq DEF BlockTypes
    <2> QED
      BY <1>1, <2>1, <2>2 DEF Blocks
  <1> QED
    BY <1>1, <1>2

\* Adjustment leaves length and ids of a chain, and all but its tip, alone.
LEMMA AdjustedOK ==
  ASSUME NEW c \in Seq(Hashes), c # <<>>
  PROVE  /\ Adjusted(c) \in Seq(Hashes) /\ Adjusted(c) # <<>>
         /\ Len(Adjusted(c)) = Len(c)
         /\ \A i \in 1..Len(c) : Adjusted(c)[i][1] = c[i][1]
         /\ \A i \in 1..(Len(c) - 1) : Adjusted(c)[i] = c[i]
  <1> DEFINE d == [c EXCEPT ![Len(c)] = <<c[Len(c)][1], 1>>]
  <1>0. Len(c) \in Nat \ {0} /\ c[Len(c)] \in Hashes
    BY LastOK
  <1>1. <<c[Len(c)][1], 1>> \in Hashes
    BY <1>0 DEF Hashes
  <1>2. /\ d \in Seq(Hashes) /\ Len(d) = Len(c)
        /\ \A i \in 1..Len(c) : d[i] = IF i = Len(c) THEN <<c[Len(c)][1], 1>> ELSE c[i]
    BY <1>0, <1>1
  <1>3. d # <<>>
    <2>1. Len(<<>>) = 0
      OBVIOUS
    <2> QED
      BY <1>0, <1>2, <2>1
  <1>4. Adjusted(c) = c \/ Adjusted(c) = d
    BY DEF Adjusted
  <1>5. \A i \in 1..Len(c) : d[i][1] = c[i][1]
    BY <1>2
  <1>6. \A i \in 1..(Len(c) - 1) : d[i] = c[i]
    BY <1>0, <1>2
  <1> HIDE DEF d
  <1>7. CASE Adjusted(c) = c
    BY <1>7
  <1>8. CASE Adjusted(c) = d
    BY <1>2, <1>3, <1>5, <1>6, <1>8
  <1> QED
    BY <1>4, <1>7, <1>8

\* One more block.
LEMMA AppendOK ==
  ASSUME NEW S, NEW s \in Seq(S), NEW x \in S
  PROVE  /\ Append(s, x) \in Seq(S) /\ Append(s, x) # <<>>
         /\ Len(Append(s, x)) = Len(s) + 1 /\ Len(s) \in Nat
         /\ \A i \in 1..Len(s) : Append(s, x)[i] = s[i]
         /\ Append(s, x)[Len(s) + 1] = x
  BY AppendProperties, LenProperties

\* What add_block() does to the chain of its node, and what goes with it.
Added(n, b, r) ==
  /\ chain' = [chain EXCEPT ![n] = Append(@, Hash(b))]
  /\ r.prev = Last(chain[n])
  /\ confirmed' = [confirmed EXCEPT ![n] = @ \cup r.txs]
  /\ mempool' = [mempool EXCEPT ![n] = @ \ r.txs]

LEMMA TakeOK ==
  ASSUME ChainTypes, NEW n \in Nodes, NEW b \in Nat, NEW r, Take(n, b, r)
  PROVE  \/ Added(n, b, r)
         \/ /\ ChainWith(chain[n], b, r) = chain[n]
            /\ UNCHANGED chain
            /\ confirmed' = [confirmed EXCEPT ![n] = @ \cup r.txs]
            /\ mempool' = [mempool EXCEPT ![n] = @ \ r.txs]
  <1>1. /\ chain \in [Nodes -> Seq(Hashes)] /\ chain[n] \in Seq(Hashes)
        /\ chain[n] # <<>> /\ Hash(b) \in Hashes
    BY DEF ChainTypes, Hash, Hashes
  <1>2. \/ ChainWith(chain[n], b, r) = chain[n]
        \/ /\ ChainWith(chain[n], b, r) = Append(chain[n], Hash(b))
           /\ r.prev = Last(chain[n])
    BY <1>1, ChainWithOK
  <1>3. chain' = [chain EXCEPT ![n] = ChainWith(chain[n], b, r)]
    BY DEF Take
  <1>4. CASE ChainWith(chain[n], b, r) = chain[n]
    <2>1. chain' = chain
      BY <1>1, <1>3, <1>4
    <2> QED
      BY <1>4, <2>1 DEF Take
  <1>5. CASE /\ ChainWith(chain[n], b, r) = Append(chain[n], Hash(b))
             /\ r.prev = Last(chain[n])
    BY <1>3, <1>5 DEF Take, Added
  <1> QED
    BY <1>2, <1>4, <1>5

\* add_block() appends, or keeps the block aside, or does nothing.
LEMMA AddBlockOK ==
  ASSUME ChainTypes, NEW n \in Nodes, NEW th, NEW b \in Nat, NEW r, NEW next, NEW back,
         AddBlock(n, th, b, r, next, back)
  PROVE  \/ Added(n, b, r) /\ UNCHANGED orphans /\ Go(n, th, next)
         \/ /\ UNCHANGED <<chain, confirmed, mempool>> /\ Go(n, th, back)
            /\ \/ orphans' = [orphans EXCEPT ![n] = @ \cup {b}]
               \/ UNCHANGED orphans
  <1>1. ASSUME ChainWith(chain[n], b, r) # chain[n], Take(n, b, r)
        PROVE  Added(n, b, r)
    BY <1>1, TakeOK
  <1> QED
    BY <1>1 DEF AddBlock

\* An orphan that fits is appended.
LEMMA ResolveOK ==
  ASSUME ChainTypes, NEW n \in Nodes, NEW th, NEW b \in Mined, b \in Nat, Resolve(n, th, b)
  PROVE  Added(n, b, block[b])
  <1> DEFINE c == chain[n]
             forks == {i \in 1..Len(c) : c[i] = block[b].prev}
             new(i) == Append(SubSeq(c, 1, i), Hash(b))
  <1>1. c \in Seq(Hashes) /\ c # <<>> /\ Hash(b) \in Hashes
    BY DEF ChainTypes, Hash, Hashes
  <1>2. Len(c) \in Nat \ {0} /\ Last(c) = c[Len(c)]
    BY <1>1, LastOK
  <1>3. block[b].prev = Last(c) /\ Take(n, b, block[b])
    BY DEF Resolve, Fits, Tip
  <1>4. Len(c) \in forks
    BY <1>2, <1>3
  <1>5. new(Len(c)) = Append(c, Hash(b))
    BY <1>1, SubSeqFull
  <1>6. Len(new(Len(c))) > Len(c)
    BY <1>1, <1>2, <1>5, AppendOK
  <1>7. ChainWith(c, b, block[b]) # c
    <2>1. PICK i \in forks : /\ Len(new(i)) > Len(c)
                             /\ ChainWith(c, b, block[b]) = new(i)
      BY <1>4, <1>6 DEF ChainWith
    <2> QED
      BY <2>1, <1>2
  <1> QED
    BY <1>3, <1>7, TakeOK

\* A thread that moves on is where it went, and the others are where they were.
LEMMA GoOK ==
  ASSUME ThreadTypes, NEW n \in Nodes, NEW th \in Threads, NEW place \in Places,
         Go(n, th, place)
  PROVE  /\ at' \in [Nodes -> [Threads -> Places]]
         /\ at'[n][th] = place
         /\ \A t \in Threads \ {th} : at'[n][t] = at[n][t]
         /\ \A m \in Nodes \ {n} : at'[m] = at[m]
  BY DEF ThreadTypes, Go

\* A block that is appended keeps the types of chain, file and mempool.
LEMMA AddedOK ==
  ASSUME Types, NEW n \in Nodes, NEW b \in Nat, NEW r, r.txs \subseteq Txs, Added(n, b, r),
         saved' = saved, crashes' = crashes
  PROVE  ChainTypes' /\ SavedTypes' /\ PoolTypes'
  <1> USE DEF Types
  <1>1. Hash(b) \in Hashes /\ chain[n] \in Seq(Hashes)
    BY DEF Hash, Hashes, ChainTypes
  <1> DEFINE d == Append(chain[n], Hash(b))
  <1>2. d \in Seq(Hashes) /\ d # <<>> /\ Len(d) = Len(chain[n]) + 1 /\ Len(chain[n]) \in Nat
    BY <1>1, AppendOK
  <1> HIDE DEF d
  <1>3. chain' = [chain EXCEPT ![n] = d]
    BY DEF Added, d
  <1>4. ChainTypes'
    BY <1>2, <1>3 DEF ChainTypes
  <1>5. SavedTypes'
    <2> SUFFICES ASSUME NEW m \in Nodes PROVE saved[m] \in 1..Len(chain'[m])
      BY DEF SavedTypes
    <2>1. CASE m = n
      BY <1>2, <1>3, <2>1 DEF SavedTypes, ChainTypes
    <2>2. CASE m # n
      BY <1>3, <2>2 DEF SavedTypes, ChainTypes
    <2> QED
      BY <2>1, <2>2
  <1>6. PoolTypes'
    BY DEF Added, PoolTypes
  <1> QED
    BY <1>4, <1>5, <1>6

\* A call of add_block() keeps the types.
LEMMA AddBlockTypes ==
  ASSUME Types, NEW n \in Nodes, NEW th \in Threads, NEW b \in Nat, NEW r,
         r.txs \subseteq Txs, NEW next \in Places, NEW back \in Places,
         AddBlock(n, th, b, r, next, back), saved' = saved, crashes' = crashes
  PROVE  /\ ChainTypes' /\ SavedTypes' /\ PoolTypes'
         /\ at' \in [Nodes -> [Threads -> Places]]
         /\ at'[n][th] = next \/ at'[n][th] = back
         /\ \A t \in Threads \ {th} : at'[n][t] = at[n][t]
         /\ \A m \in Nodes \ {n} : at'[m] = at[m]
         /\ orphans' \in [Nodes -> SUBSET Nat]
         /\ \A m \in Nodes : orphans'[m] \subseteq orphans[m] \cup {b}
  <1> USE DEF Types
  <1>1. CASE Added(n, b, r) /\ UNCHANGED orphans /\ Go(n, th, next)
    <2>1. ChainTypes' /\ SavedTypes' /\ PoolTypes'
      BY <1>1, AddedOK
    <2>2. /\ at' \in [Nodes -> [Threads -> Places]] /\ at'[n][th] = next
          /\ \A t \in Threads \ {th} : at'[n][t] = at[n][t]
          /\ \A m \in Nodes \ {n} : at'[m] = at[m]
      BY <1>1, GoOK
    <2> QED
      BY <1>1, <2>1, <2>2 DEF KeptTypes
  <1>2. CASE /\ UNCHANGED <<chain, confirmed, mempool>> /\ Go(n, th, back)
             /\ \/ orphans' = [orphans EXCEPT ![n] = @ \cup {b}]
                \/ UNCHANGED orphans
    <2>1. ChainTypes' /\ SavedTypes' /\ PoolTypes'
      BY <1>2 DEF ChainTypes, SavedTypes, PoolTypes
    <2>2. /\ at' \in [Nodes -> [Threads -> Places]] /\ at'[n][th] = back
          /\ \A t \in Threads \ {th} : at'[n][t] = at[n][t]
          /\ \A m \in Nodes \ {n} : at'[m] = at[m]
      BY <1>2, GoOK
    <2>3. /\ orphans' \in [Nodes -> SUBSET Nat]
          /\ \A m \in Nodes : orphans'[m] \subseteq orphans[m] \cup {b}
      BY <1>2 DEF KeptTypes
    <2> QED
      BY <2>1, <2>2, <2>3
  <1> QED
    BY <1>1, <1>2, AddBlockOK

\* Submitted and dropped transactions.
LEMMA MempoolTypes ==
  ASSUME Types, NEW n \in Nodes, NEW t \in Txs, Submit(n, t) \/ Drop(n, t)
  PROVE  Types'
  <1> USE DEF Types
  <1>1. PoolTypes'
    BY DEF Submit, Drop, PoolTypes
  <1> QED
    BY <1>1 DEF Submit, Drop, BlockTypes, ChainTypes, SavedTypes, KeptTypes, WorkTypes,
                ThreadTypes, Mined

\* A miner that begins or gives up.
LEMMA MineTypes ==
  ASSUME Types, NEW n \in Nodes, Mine(n) \/ GiveUp(n)
  PROVE  Types'
  <1> USE DEF Types
  <1>1. Last(chain[n]) \in Hashes /\ Genesis \in Hashes
    BY LastOK DEF ChainTypes, Genesis, Hashes
  <1>2. NoWork \in Works
    BY <1>1 DEF NoWork, Works
  <1>3. [prev |-> Tip(n), txs |-> mempool[n], halvings |-> halvings[n], found |-> 0] \in Works
    BY <1>1 DEF Works, Tip, PoolTypes, WorkTypes
  <1>4. WorkTypes'
    BY <1>2, <1>3 DEF Mine, GiveUp, WorkTypes, memVars
  <1>5. /\ Go(n, "miner", "hash") \/ Go(n, "miner", "idle")
        /\ UNCHANGED <<block, memVars, todo, net, saved, crashes>>
        /\ \A m \in Nodes \ {n} : work'[m] = work[m]
    BY DEF Mine, GiveUp, WorkTypes
  <1>6. /\ at' \in [Nodes -> [Threads -> Places]] /\ at'[n]["miner"] # "cast"
        /\ \A m \in Nodes : at'[m]["sync"] = at[m]["sync"]
        /\ \A m \in Nodes \ {n} : at'[m] = at[m]
    BY <1>5, GoOK DEF Places, Threads
  <1>7. ThreadTypes'
    BY <1>5, <1>6 DEF ThreadTypes, Mined
  <1> QED
    BY <1>4, <1>5, <1>7
    DEF memVars, BlockTypes, ChainTypes, SavedTypes, PoolTypes, KeptTypes, Mined

\* A miner that finds a block.
LEMMA FoundTypes ==
  ASSUME Types, NEW n \in Nodes, Found(n)
  PROVE  Types'
  <1> USE DEF Types
  <1> DEFINE r == [prev |-> work[n].prev, txs |-> work[n].txs,
                   halvings |-> work[n].halvings]
             b == Len(block')
  <1>1. work[n] \in Works
    BY DEF WorkTypes
  <1>2. r \in Blocks
    BY <1>1 DEF Works, Blocks
  <1>3. block' = Append(block, r) /\ Len(block) < MaxBlocks
    BY DEF Found
  <1> HIDE DEF r
  <1>4. /\ block' \in Seq(Blocks) /\ b = Len(block) + 1 /\ Len(block) \in Nat
        /\ block'[b] = r
    BY <1>2, <1>3, AppendOK DEF BlockTypes
  <1>5. BlockTypes' /\ b \in Nat /\ b \in Mined' /\ Mined \subseteq Mined'
    BY <1>3, <1>4, BlockchainAssumption DEF BlockTypes, Mined
  <1>6. /\ AddBlock(n, "miner", b, r, "cast", "idle")
        /\ work' = [work EXCEPT ![n] = [NoWork EXCEPT !.found = b]]
        /\ UNCHANGED <<halvings, todo, net, saved, crashes>>
    BY <1>4 DEF Found
  <1> HIDE DEF b
  <1>7. /\ ChainTypes' /\ SavedTypes' /\ PoolTypes'
        /\ at' \in [Nodes -> [Threads -> Places]]
        /\ \A t \in Threads \ {"miner"} : at'[n][t] = at[n][t]
        /\ \A m \in Nodes \ {n} : at'[m] = at[m]
        /\ orphans' \in [Nodes -> SUBSET Nat]
        /\ \A m \in Nodes : orphans'[m] \subseteq orphans[m] \cup {b}
    <2>1. r.txs \subseteq Txs
      BY <1>2 DEF Blocks
    <2>2. "miner" \in Threads /\ "cast" \in Places /\ "idle" \in Places
      BY DEF Threads, Places
    <2> QED
      BY <1>5, <1>6, <2>1, <2>2, AddBlockTypes
  <1>8. KeptTypes'
    BY <1>5, <1>6, <1>7 DEF KeptTypes
  <1>9. Genesis \in Hashes
    BY DEF Genesis, Hashes
  <1>10. [NoWork EXCEPT !.found = b] \in Works /\ [NoWork EXCEPT !.found = b].found = b
    BY <1>5, <1>9 DEF NoWork, Works
  <1>11. WorkTypes' /\ work'[n].found = b /\ \A m \in Nodes \ {n} : work'[m] = work[m]
    BY <1>6, <1>10 DEF WorkTypes
  <1>12. ThreadTypes'
    <2>1. \A m \in Nodes : at'[m]["sync"] = at[m]["sync"]
      BY <1>7 DEF Threads
    <2>2. \A m \in Nodes : at'[m]["miner"] = "cast" => work'[m].found \in Mined'
      BY <1>5, <1>7, <1>11 DEF ThreadTypes
    <2> QED
      BY <1>6, <1>7, <2>1, <2>2 DEF ThreadTypes
  <1> QED
    BY <1>5, <1>7, <1>8, <1>11, <1>12

\* A block that is posted to some of the peers.
LEMMA BroadcastTypes ==
  ASSUME Types, NEW n \in Nodes, Broadcast(n)
  PROVE  Types'
  <1> USE DEF Types
  <1>1. PICK S \in SUBSET (Nodes \ {n}) :
          net' = [m \in Nodes |-> IF m \in S THEN net[m] \cup {work[n].found} ELSE net[m]]
    BY DEF Broadcast
  <1>2. work[n].found \in Mined /\ work[n].found \in Nat
    BY DEF Broadcast, ThreadTypes, WorkTypes, Works
  <1>3. Go(n, "miner", "resolve") /\ work' = [work EXCEPT ![n] = NoWork]
        /\ UNCHANGED <<block, memVars, todo, saved, crashes>>
    BY DEF Broadcast
  <1>4. NoWork \in Works
    BY DEF NoWork, Works, Genesis, Hashes
  <1>5. WorkTypes'
    BY <1>3, <1>4 DEF WorkTypes, memVars
  <1>6. KeptTypes'
    BY <1>1, <1>2, <1>3 DEF KeptTypes, memVars, Mined
  <1>7. /\ at' \in [Nodes -> [Threads -> Places]] /\ at'[n]["miner"] # "cast"
        /\ \A m \in Nodes : at'[m]["sync"] = at[m]["sync"]
        /\ \A m \in Nodes \ {n} : at'[m] = at[m]
    BY <1>3, GoOK DEF Places, Threads
  <1>8. \A m \in Nodes \ {n} : work'[m] = work[m]
    BY <1>3 DEF WorkTypes
  <1>9. ThreadTypes'
    BY <1>3, <1>7, <1>8 DEF ThreadTypes, Mined
  <1> QED
    BY <1>3, <1>5, <1>6, <1>9 DEF memVars, BlockTypes, ChainTypes, SavedTypes, PoolTypes

\* A block that comes in.
LEMMA ReceiveTypes ==
  ASSUME Types, NEW n \in Nodes, NEW b \in Mined, Receive(n, b)
  PROVE  Types'
  <1> USE DEF Types
  <1>1. b \in Nat /\ block[b].txs \subseteq Txs
    BY MinedOK
  <1>2. /\ AddBlock(n, "server", b, block[b], "resolve", "idle")
        /\ net' = [net EXCEPT ![n] = @ \ {b}]
        /\ UNCHANGED <<block, halvings, work, todo, saved, crashes>>
    BY DEF Receive
  <1>3. "server" \in Threads /\ "resolve" \in Places /\ "idle" \in Places
    BY DEF Threads, Places
  <1>4. /\ ChainTypes' /\ SavedTypes' /\ PoolTypes'
        /\ at' \in [Nodes -> [Threads -> Places]]
        /\ \A t \in Threads \ {"server"} : at'[n][t] = at[n][t]
        /\ \A m \in Nodes \ {n} : at'[m] = at[m]
        /\ orphans' \in [Nodes -> SUBSET Nat]
        /\ \A m \in Nodes : orphans'[m] \subseteq orphans[m] \cup {b}
    BY <1>1, <1>2, <1>3, AddBlockTypes
  <1>5. KeptTypes'
    BY <1>2, <1>4 DEF KeptTypes, Mined
  <1>6. ThreadTypes'
    BY <1>2, <1>4 DEF ThreadTypes, Threads, Mined
  <1> QED
    BY <1>2, <1>4, <1>5, <1>6 DEF BlockTypes, WorkTypes

\* Blocks that are asked for.
LEMMA FetchTypes ==
  ASSUME Types, NEW n \in Nodes, NEW m \in Nodes, Fetch(n, m)
  PROVE  Types'
  <1> USE DEF Types
  <1> DEFINE d == SubSeq(chain[m], Len(chain[n]), Len(chain[m]))
  <1>1. /\ chain[m] \in Seq(Hashes) /\ Len(chain[m]) \in Nat \ {0}
        /\ chain[n] \in Seq(Hashes) /\ Len(chain[n]) \in Nat \ {0}
    BY LastOK DEF ChainTypes
  <1>2. Len(chain[n]) < Len(chain[m])
    BY <1>1 DEF Fetch, Height
  <1>3. \A i \in Len(chain[n])..Len(chain[m]) : chain[m][i] \in Hashes
    BY <1>1
  <1>4. d \in Seq(Hashes) /\ Len(d) = IF Len(chain[n]) <= Len(chain[m])
                                      THEN Len(chain[m]) - Len(chain[n]) + 1 ELSE 0
    BY <1>1, <1>3, SubSeqProperties
  <1>5. d \in Seq(Hashes) /\ Len(d) # 0
    BY <1>1, <1>2, <1>4
  <1>6. d # <<>>
    <2>1. Len(<<>>) = 0
      OBVIOUS
    <2> QED
      BY <1>5, <2>1
  <1>7. /\ todo' = [todo EXCEPT ![n] = d] /\ Go(n, "sync", "next")
        /\ UNCHANGED <<block, memVars, work, net, saved, crashes>>
    BY DEF Fetch
  <1> HIDE DEF d
  <1>8. /\ at' \in [Nodes -> [Threads -> Places]]
        /\ \A k \in Nodes : at'[k]["miner"] = at[k]["miner"]
        /\ \A k \in Nodes \ {n} : at'[k] = at[k]
    BY <1>7, GoOK DEF Places, Threads
  <1>9. ThreadTypes'
    BY <1>5, <1>6, <1>7, <1>8 DEF ThreadTypes, Mined
  <1> QED
    BY <1>7, <1>9
    DEF memVars, BlockTypes, ChainTypes, SavedTypes, PoolTypes, KeptTypes, WorkTypes, Mined

\* What is left of the fetched blocks.
LEMMA RestOK ==
  ASSUME NEW S, NEW s \in Seq(S), s # <<>>
  PROVE  Tail(s) \in Seq(S) /\ (Len(s) # 1 => Tail(s) # <<>>)
  <1>1. Tail(s) \in Seq(S) /\ Len(Tail(s)) = Len(s) - 1 /\ Len(s) \in Nat
    BY HeadTailProperties, LenProperties
  <1>2. Len(<<>>) = 0
    OBVIOUS
  <1>3. Tail(s) = <<>> => Len(Tail(s)) = 0
    BY <1>2, Zenon
  <1>4. \A k, l \in Int : l = k - 1 /\ l = 0 => k = 1
    OBVIOUS
  <1>5. Len(Tail(s)) \in Int /\ Len(s) \in Int
    BY <1>1
  <1> QED
    BY <1>1, <1>3, <1>4, <1>5, Zenon

\* A fetched block that is added, or left out.
LEMMA AddFetchedTypes ==
  ASSUME Types, NEW n \in Nodes, AddFetched(n)
  PROVE  Types'
  <1> USE DEF Types
  <1> DEFINE next == IF Len(todo[n]) = 1 THEN "idle" ELSE "next"
             h == Head(todo[n])
  <1>1. todo[n] \in Seq(Hashes) /\ todo[n] # <<>>
    BY DEF AddFetched, ThreadTypes
  <1>2. /\ Tail(todo[n]) \in Seq(Hashes)
        /\ Len(todo[n]) # 1 => Tail(todo[n]) # <<>>
    BY <1>1, RestOK
  <1>3. /\ todo' = [todo EXCEPT ![n] = Tail(@)]
        /\ UNCHANGED <<block, halvings, work, net, saved, crashes>>
    BY DEF AddFetched
  <1>4. next \in Places /\ "resolve" \in Places /\ "sync" \in Threads
    BY DEF Places, Threads
  <1>5. /\ ChainTypes' /\ SavedTypes' /\ PoolTypes' /\ KeptTypes'
        /\ at' \in [Nodes -> [Threads -> Places]]
        /\ at'[n]["sync"] = "resolve" \/ at'[n]["sync"] = next
        /\ \A t \in Threads \ {"sync"} : at'[n][t] = at[n][t]
        /\ \A m \in Nodes \ {n} : at'[m] = at[m]
    <2>1. CASE /\ Mineable(h)
               /\ AddBlock(n, "sync", h[1], block[h[1]], "resolve", next)
      <3>1. h[1] \in Nat /\ h[1] \in Mined /\ block[h[1]].txs \subseteq Txs
        BY <2>1, MinedOK DEF Mineable
      <3> HIDE DEF next, h
      <3>2. /\ ChainTypes' /\ SavedTypes' /\ PoolTypes'
            /\ at' \in [Nodes -> [Threads -> Places]]
            /\ at'[n]["sync"] = "resolve" \/ at'[n]["sync"] = next
            /\ \A t \in Threads \ {"sync"} : at'[n][t] = at[n][t]
            /\ \A m \in Nodes \ {n} : at'[m] = at[m]
            /\ orphans' \in [Nodes -> SUBSET Nat]
            /\ \A m \in Nodes : orphans'[m] \subseteq orphans[m] \cup {h[1]}
        BY <1>3, <1>4, <2>1, <3>1, AddBlockTypes
      <3>3. KeptTypes'
        BY <1>3, <3>1, <3>2 DEF KeptTypes, Mined
      <3> QED
        BY <3>2, <3>3
    <2>2. CASE Go(n, "sync", next) /\ UNCHANGED <<chain, confirmed, mempool, orphans>>
      <3> HIDE DEF next
      <3>1. /\ at' \in [Nodes -> [Threads -> Places]] /\ at'[n]["sync"] = next
            /\ \A t \in Threads \ {"sync"} : at'[n][t] = at[n][t]
            /\ \A m \in Nodes \ {n} : at'[m] = at[m]
        BY <1>4, <2>2, GoOK
      <3>2. ChainTypes' /\ SavedTypes' /\ PoolTypes' /\ KeptTypes'
        BY <1>3, <2>2 DEF ChainTypes, SavedTypes, PoolTypes, KeptTypes, Mined
      <3> QED
        BY <3>1, <3>2
    <2> QED
      BY <2>1, <2>2 DEF AddFetched
  <1>6. ThreadTypes'
    <2>1. todo' \in [Nodes -> Seq(Hashes)] /\ todo'[n] = Tail(todo[n])
          /\ \A m \in Nodes \ {n} : todo'[m] = todo[m]
      BY <1>2, <1>3 DEF ThreadTypes
    <2>2. at'[n]["sync"] = "next" => todo'[n] # <<>>
      BY <1>2, <1>5, <2>1
    <2>3. \A m \in Nodes : at'[m]["miner"] = "cast" => work'[m].found \in Mined'
      BY <1>3, <1>5 DEF ThreadTypes, Threads, Mined
    <2> QED
      BY <1>5, <2>1, <2>2, <2>3 DEF ThreadTypes
  <1> QED
    BY <1>3, <1>5, <1>6 DEF BlockTypes, WorkTypes

\* An orphan that is appended.
LEMMA ResolveTypes ==
  ASSUME Types, NEW n \in Nodes, NEW th \in Threads, NEW b \in Mined, Resolve(n, th, b)
  PROVE  Types'
  <1> USE DEF Types
  <1>1. b \in Nat /\ block[b].txs \subseteq Txs
    BY MinedOK
  <1>2. ChainTypes' /\ SavedTypes' /\ PoolTypes'
    <2>1. Added(n, b, block[b])
      BY <1>1, ResolveOK
    <2> QED
      BY <1>1, <2>1, AddedOK DEF Resolve
  <1>3. KeptTypes'
    BY DEF Resolve, KeptTypes, Mined
  <1> QED
    BY <1>2, <1>3 DEF Resolve, BlockTypes, WorkTypes, ThreadTypes, Mined

\* The end of add_block(): difficulty, file.
LEMMA SettleTypes ==
  ASSUME Types, NEW n \in Nodes, NEW th \in Threads, Settle(n, th)
  PROVE  Types'
  <1> USE DEF Types
  <1> DEFINE d == Adjusted(chain[n])
             next == IF th = "sync" /\ todo[n] # <<>> THEN "next" ELSE "idle"
             half == IF Adjusted(chain[n]) # chain[n] THEN Height(n) \div Halving
                     ELSE halvings[n]
  <1>1. d \in Seq(Hashes) /\ d # <<>> /\ Len(d) = Len(chain[n])
        /\ Len(chain[n]) \in Nat \ {0}
    BY AdjustedOK, LastOK DEF ChainTypes
  <1>2. half \in Int
    <2>1. Height(n) \in Int
      BY <1>1 DEF Height
    <2>2. Height(n) \div Halving \in Int
      BY <2>1, BlockchainAssumption
    <2> QED
      BY <2>2 DEF WorkTypes
  <1>3. /\ chain' = [chain EXCEPT ![n] = d]
        /\ halvings' = [halvings EXCEPT ![n] = half]
        /\ saved' = [saved EXCEPT ![n] = Len(chain[n])]
        /\ Go(n, th, next)
        /\ UNCHANGED <<block, orphans, mempool, confirmed, work, todo, net, crashes>>
    BY DEF Settle, WorkTypes
  <1> HIDE DEF d, half
  <1>4. ChainTypes' /\ SavedTypes' /\ WorkTypes'
    <2>1. ChainTypes'
      BY <1>1, <1>3 DEF ChainTypes
    <2>2. WorkTypes'
      BY <1>2, <1>3 DEF WorkTypes
    <2>3. saved' \in [Nodes -> Nat]
      BY <1>1, <1>3 DEF SavedTypes
    <2>4. \A m \in Nodes : saved'[m] \in 1..Len(chain'[m])
      BY <1>1, <1>3 DEF SavedTypes, ChainTypes
    <2> QED
      BY <2>1, <2>2, <2>3, <2>4 DEF SavedTypes
  <1>5. PoolTypes' /\ KeptTypes' /\ BlockTypes'
    BY <1>3 DEF PoolTypes, KeptTypes, BlockTypes, Mined
  <1>6. ThreadTypes'
    <2>1. next \in Places /\ (next = "next" => th = "sync" /\ todo[n] # <<>>)
          /\ next # "cast"
      BY DEF Places
    <2> HIDE DEF next
    <2>2. /\ at' \in [Nodes -> [Threads -> Places]] /\ at'[n][th] = next
          /\ \A t \in Threads \ {th} : at'[n][t] = at[n][t]
          /\ \A m \in Nodes \ {n} : at'[m] = at[m]
      BY <1>3, <2>1, GoOK
    <2>3. \A m \in Nodes : at'[m]["sync"] = "next" => todo[m] # <<>>
      BY <2>1, <2>2 DEF ThreadTypes, Threads
    <2>4. \A m \in Nodes : at'[m]["miner"] = "cast" => work[m].found \in Mined
      BY <2>1, <2>2 DEF ThreadTypes, Threads
    <2> QED
      BY <1>3, <2>2, <2>3, <2>4 DEF ThreadTypes, Mined
  <1> QED
    BY <1>4, <1>5, <1>6

\* A node that starts again.
LEMMA CrashTypes ==
  ASSUME Types, NEW n \in Nodes, NEW torn \in BOOLEAN, Crash(n, torn)
  PROVE  Types'
  <1> USE DEF Types
  <1> DEFINE c == IF torn THEN <<<<n, 0>>>> ELSE SubSeq(chain[n], 1, saved[n])
  <1>1. c \in Seq(Hashes) /\ c # <<>> /\ Len(c) \in Nat \ {0}
    <2>1. CASE torn
      <3>1. <<n, 0>> \in Hashes
        BY DEF Hashes
      <3>2. c = <<<<n, 0>>>>
        BY <2>1
      <3> HIDE DEF c
      <3> QED
        BY <3>1, <3>2
    <2>2. CASE ~torn
      <3>1. chain[n] \in Seq(Hashes) /\ saved[n] \in 1..Len(chain[n]) /\ saved[n] \in Nat
        BY DEF ChainTypes, SavedTypes
      <3>2. c \in Seq(Hashes) /\ Len(c) = saved[n]
        BY <2>2, <3>1, CutOK
      <3> HIDE DEF c
      <3>3. Len(<<>>) = 0
        OBVIOUS
      <3>4. Len(c) \in Nat \ {0}
        BY <3>1, <3>2
      <3> QED
        BY <3>2, <3>3, <3>4
    <2> QED
      BY <2>1, <2>2
  <1>2. /\ crashes' = crashes + 1
        /\ chain' = [chain EXCEPT ![n] = c] /\ saved' = [saved EXCEPT ![n] = Len(c)]
        /\ \E txs \in SUBSET Txs : mempool' = [mempool EXCEPT ![n] = txs]
        /\ confirmed' = [confirmed EXCEPT ![n] = {}]
        /\ orphans' = [orphans EXCEPT ![n] = {}] /\ net' = [net EXCEPT ![n] = {}]
        /\ halvings' = [halvings EXCEPT ![n] = (Len(c) - 1) \div Halving]
        /\ at' = [at EXCEPT ![n] = [th \in Threads |-> "idle"]]
        /\ work' = [work EXCEPT ![n] = NoWork]
        /\ todo' = [todo EXCEPT ![n] = <<>>]
        /\ block' = block
    BY DEF Crash
  <1> HIDE DEF c
  <1>3. ChainTypes'
    BY <1>1, <1>2 DEF ChainTypes
  <1>4. SavedTypes'
    BY <1>1, <1>2 DEF SavedTypes, ChainTypes
  <1>5. PoolTypes'
    BY <1>2 DEF PoolTypes
  <1>6. KeptTypes'
    BY <1>2 DEF KeptTypes, Mined
  <1>7. WorkTypes'
    <2>1. NoWork \in Works
      BY DEF NoWork, Works, Genesis, Hashes
    <2>2. (Len(c) - 1) \div Halving \in Int
      BY <1>1, BlockchainAssumption
    <2> QED
      BY <1>2, <2>1, <2>2 DEF WorkTypes
  <1>8. ThreadTypes'
    <2>1. <<>> \in Seq(Hashes) /\ "idle" \in Places
      BY DEF Places
    <2>2. todo' \in [Nodes -> Seq(Hashes)]
      BY <1>2, <2>1 DEF ThreadTypes
    <2>3. at' \in [Nodes -> [Threads -> Places]]
      BY <1>2, <2>1 DEF ThreadTypes
    <2>4. at'[n]["sync"] = "idle" /\ at'[n]["miner"] = "idle"
      BY <1>2 DEF ThreadTypes, Threads
    <2>5. \A m \in Nodes \ {n} : at'[m] = at[m] /\ todo'[m] = todo[m] /\ work'[m] = work[m]
      BY <1>2 DEF ThreadTypes, WorkTypes
    <2> QED
      BY <1>2, <2>2, <2>3, <2>4, <2>5 DEF ThreadTypes, Mined
  <1> QED
    BY <1>2, <1>3, <1>4, <1>5, <1>6, <1>7, <1>8 DEF BlockTypes

\* Every step keeps the types.
LEMMA TypesStep ==
  ASSUME Types, [Next]_vars
  PROVE  Types'
  <1>1. CASE UNCHANGED vars
    BY <1>1 DEF vars, memVars, Types, BlockTypes, ChainTypes, SavedTypes, PoolTypes,
                KeptTypes, WorkTypes, ThreadTypes, Mined
  <1>2. CASE Next
    BY <1>2, MempoolTypes, MineTypes, FoundTypes, BroadcastTypes, ReceiveTypes, FetchTypes,
       AddFetchedTypes, ResolveTypes, SettleTypes, CrashTypes
    DEF Next, SyncSteps, AddSteps, Threads
  <1> QED
    BY <1>1, <1>2

LEMMA TypesInit == Init => Types
  <1> SUFFICES ASSUME Init PROVE Types
    OBVIOUS
  <1>1. Genesis \in Hashes /\ "idle" \in Places
    BY DEF Genesis, Hashes, Places
  <1>2. <<Genesis>> \in Seq(Hashes) /\ <<Genesis>> # <<>> /\ Len(<<Genesis>>) = 1
    BY <1>1
  <1>3. NoWork \in Works
    BY <1>1 DEF NoWork, Works
  <1>4. block \in Seq(Blocks) /\ Len(block) = 0 /\ Mined = {}
    BY DEF Init, Mined
  <1>5. BlockTypes
    BY <1>4, BlockchainAssumption DEF BlockTypes
  <1>6. ChainTypes /\ SavedTypes
    BY <1>2 DEF Init, ChainTypes, SavedTypes
  <1>7. PoolTypes /\ KeptTypes
    BY DEF Init, PoolTypes, KeptTypes
  <1>8. WorkTypes /\ ThreadTypes
    BY <1>1, <1>3 DEF Init, WorkTypes, ThreadTypes, Threads
  <1> QED
    BY <1>5, <1>6, <1>7, <1>8 DEF Types

LEMMA TypesCorrect == Spec => []Types
  BY TypesInit, TypesStep, PTL DEF Spec

\* Types; what is set aside, posted or fetched was mined, and a file never
\* holds more of a chain than there is, for any number of nodes and blocks.
THEOREM TypeCorrect == Spec => []TypeOK
  <1>1. Types => TypeOK
    <2> SUFFICES ASSUME Types PROVE TypeOK
      OBVIOUS
    <2>1. Mined = 1..Len(block) /\ Len(block) <= MaxBlocks
      BY MinedOK DEF Types, BlockTypes
    <2>2. \A b \in Mined : block[b].txs \subseteq Txs
      BY MinedOK DEF Types
    <2>3. \A n \in Nodes : Len(chain[n]) > 0
      BY LastOK DEF Types, ChainTypes
    <2> QED
      BY <2>1, <2>2, <2>3
      DEF TypeOK, Types, SavedTypes, PoolTypes, KeptTypes, ThreadTypes, Places
  <1> QED
    BY <1>1, TypesCorrect, PTL

(***************************************************************************)
(* What a step does to the mined blocks, and to one node's chain.          *)
(***************************************************************************)

\* A block, once mined, is what it is.
Extends == Mined \subseteq Mined' /\ \A b \in Mined : block'[b] = block[b]

LEMMA BlocksStay ==
  ASSUME Types, [Next]_vars
  PROVE  Extends
  <1>1. CASE block' = block
    BY <1>1 DEF Extends, Mined
  <1>2. ASSUME NEW n \in Nodes, Found(n) PROVE Extends
    <2> DEFINE r == [prev |-> work[n].prev, txs |-> work[n].txs,
                     halvings |-> work[n].halvings]
    <2>1. block' = Append(block, r)
      BY <1>2 DEF Found
    <2>2. work[n] \in Works
      BY DEF Types, WorkTypes
    <2>3. r \in Blocks
      BY <2>2 DEF Works, Blocks
    <2> HIDE DEF r
    <2>4. /\ block \in Seq(Blocks) /\ block' \in Seq(Blocks)
          /\ Len(block') = Len(block) + 1 /\ Len(block) \in Nat
          /\ \A i \in 1..Len(block) : block'[i] = block[i]
      BY <2>1, <2>3, AppendOK DEF Types, BlockTypes
    <2>5. Mined = 1..Len(block) /\ Mined' = 1..Len(block')
      BY <2>4, LenProperties DEF Mined
    <2> QED
      BY <2>4, <2>5 DEF Extends
  <1>3. CASE Next
    <2>1. ASSUME ~ \E n \in Nodes : Found(n) PROVE block' = block
      BY <1>3, <2>1
      DEF Next, SyncSteps, AddSteps, Submit, Drop, Mine, GiveUp, Broadcast, Receive, Fetch,
          AddFetched, Resolve, Settle, Crash
    <2> QED
      BY <1>1, <1>2, <2>1
  <1>4. CASE UNCHANGED vars
    BY <1>1, <1>4 DEF vars
  <1> QED
    BY <1>3, <1>4

\* Where a chain grows, and with what.
Grows(n) == \E b \in Mined' : Added(n, b, block'[b])
Settles(n) == chain' = [chain EXCEPT ![n] = Adjusted(@)] /\ UNCHANGED confirmed
CutsOff(n) == /\ crashes' = crashes + 1
              /\ \/ chain' = [chain EXCEPT ![n] = <<<<n, 0>>>>]
                 \/ \E k \in 1..Len(chain[n]) :
                      chain' = [chain EXCEPT ![n] = SubSeq(@, 1, k)]

\* Every step keeps the chains, or does one of these to one of them.
LEMMA ChainSteps ==
  ASSUME Types, Types', [Next]_vars
  PROVE  \/ UNCHANGED <<chain, confirmed>>
         \/ \E n \in Nodes : Grows(n) \/ Settles(n) \/ CutsOff(n)
  <1> DEFINE Goal == \/ UNCHANGED <<chain, confirmed>>
                     \/ \E n \in Nodes : Grows(n) \/ Settles(n) \/ CutsOff(n)
  <1>0. ChainTypes /\ BlockTypes /\ BlockTypes'
    BY DEF Types
  <1>1. ASSUME NEW n \in Nodes, Found(n) PROVE Goal
    <2> DEFINE b == Len(block')
    <2>1. AddBlock(n, "miner", b, block'[b], "cast", "idle")
      BY <1>1 DEF Found
    <2>2. b \in Nat /\ b \in Mined'
      <3>1. block' = Append(block, [prev |-> work[n].prev, txs |-> work[n].txs,
                                    halvings |-> work[n].halvings])
        BY <1>1 DEF Found
      <3>2. work[n] \in Works
        BY DEF Types, WorkTypes
      <3>3. [prev |-> work[n].prev, txs |-> work[n].txs,
             halvings |-> work[n].halvings] \in Blocks
        BY <3>2 DEF Works, Blocks
      <3>4. b = Len(block) + 1 /\ Len(block) \in Nat /\ block' \in Seq(Blocks)
        BY <1>0, <3>1, <3>3, AppendOK DEF BlockTypes
      <3>5. Mined' = 1..b
        BY <3>4, LenProperties DEF Mined
      <3> QED
        BY <3>4, <3>5
    <2> HIDE DEF b
    <2>3. Added(n, b, block'[b]) \/ UNCHANGED <<chain, confirmed, mempool>>
      BY <1>0, <2>1, <2>2, AddBlockOK
    <2> QED
      BY <2>2, <2>3 DEF Grows
  <1>2. ASSUME NEW n \in Nodes, NEW b \in Mined, Receive(n, b) PROVE Goal
    <2>1. AddBlock(n, "server", b, block[b], "resolve", "idle") /\ block' = block
      BY <1>2 DEF Receive
    <2>2. b \in Nat
      BY <1>0, MinedOK
    <2>3. Added(n, b, block[b]) \/ UNCHANGED <<chain, confirmed, mempool>>
      BY <1>0, <2>1, <2>2, AddBlockOK
    <2> QED
      BY <2>1, <2>3 DEF Grows, Mined
  <1>3. ASSUME NEW n \in Nodes, AddFetched(n) PROVE Goal
    <2> DEFINE h == Head(todo[n])
               next == IF Len(todo[n]) = 1 THEN "idle" ELSE "next"
    <2>1. CASE Mineable(h) /\ AddBlock(n, "sync", h[1], block[h[1]], "resolve", next)
      <3>1. h[1] \in Mined /\ h[1] \in Nat
        BY <1>0, <2>1, MinedOK DEF Mineable
      <3> HIDE DEF h, next
      <3>2. Added(n, h[1], block[h[1]]) \/ UNCHANGED <<chain, confirmed, mempool>>
        BY <1>0, <2>1, <3>1, AddBlockOK
      <3>3. block' = block
        BY <1>3 DEF AddFetched
      <3> QED
        BY <3>1, <3>2, <3>3 DEF Grows, Mined
    <2>2. CASE UNCHANGED <<chain, confirmed, mempool, orphans>>
      BY <2>2
    <2> QED
      BY <1>3, <2>1, <2>2 DEF AddFetched
  <1>4. ASSUME NEW n \in Nodes, NEW th \in Threads, NEW b \in Mined, Resolve(n, th, b) PROVE Goal
    <2>1. Added(n, b, block[b]) /\ block' = block
      BY <1>0, <1>4, MinedOK, ResolveOK DEF Resolve
    <2> QED
      BY <2>1 DEF Grows, Mined
  <1>5. ASSUME NEW n \in Nodes, NEW th \in Threads, Settle(n, th) PROVE Goal
    BY <1>5 DEF Settle, Settles
  <1>6. ASSUME NEW n \in Nodes, NEW torn \in BOOLEAN, Crash(n, torn) PROVE Goal
    <2>1. saved[n] \in 1..Len(chain[n]) /\ chain \in [Nodes -> Seq(Hashes)]
      BY DEF Types, SavedTypes, ChainTypes
    <2>2. CutsOff(n)
      BY <1>6, <2>1 DEF Crash, CutsOff
    <2> QED
      BY <2>2
  <1>7. ASSUME NEW n \in Nodes, \/ \E t \in Txs : Submit(n, t) \/ Drop(n, t)
                               \/ Mine(n) \/ GiveUp(n) \/ Broadcast(n)
                               \/ \E m \in Nodes : Fetch(n, m)
        PROVE  Goal
    BY <1>7 DEF Submit, Drop, Mine, GiveUp, Broadcast, Fetch, memVars
  <1>8. CASE UNCHANGED vars
    BY <1>8 DEF vars, memVars
  <1> HIDE DEF Goal
  <1>9. ASSUME Next PROVE Goal
    BY <1>1, <1>2, <1>3, <1>4, <1>5, <1>6, <1>7, <1>9 DEF Next, SyncSteps, AddSteps, Threads
  <1> QED
    BY <1>8, <1>9 DEF Goal

(***************************************************************************)
(* Links.                                                                  *)
(***************************************************************************)

Links(n) == \A i \in 2..Len(chain[n]) :
              /\ chain[n][i][1] \in Mined
              /\ block[chain[n][i][1]].prev = chain[n][i - 1]

AllLinks == \A n \in Nodes : Links(n)

\* A chain that keeps what it has keeps its links.
LEMMA LinksKept ==
  ASSUME Types, Extends, NEW n \in Nodes, Links(n), chain'[n] = chain[n]
  PROVE  Links(n)'
  BY DEF Links, Extends

LEMMA LinksStep ==
  ASSUME Types, Types', AllLinks, [Next]_vars
  PROVE  AllLinks'
  <1>0. Extends
    BY BlocksStay
  <1>1. CASE UNCHANGED <<chain, confirmed>>
    BY <1>0, <1>1, LinksKept DEF AllLinks
  <1>2. ASSUME NEW n \in Nodes, Grows(n) \/ Settles(n) \/ CutsOff(n)
        PROVE  AllLinks'
    <2> SUFFICES ASSUME NEW m \in Nodes PROVE Links(m)'
      BY DEF AllLinks
    <2>0. /\ chain \in [Nodes -> Seq(Hashes)] /\ chain[n] \in Seq(Hashes)
          /\ chain[n] # <<>> /\ Len(chain[n]) \in Nat \ {0}
          /\ Links(m) /\ Links(n)
      BY LastOK DEF Types, ChainTypes, AllLinks
    <2>1. CASE m # n
      <3>1. chain'[m] = chain[m]
        BY <1>2, <2>0, <2>1 DEF Grows, Added, Settles, CutsOff
      <3> QED
        BY <1>0, <2>0, <3>1, LinksKept
    <2>2. CASE m = n
      <3>1. CASE Grows(n)
        <4>1. PICK b \in Mined' : Added(n, b, block'[b])
          BY <3>1 DEF Grows
        <4>2. b \in Nat /\ Hash(b) \in Hashes /\ Hash(b)[1] = b
          BY MinedOK DEF Types, Hash, Hashes, Mined
        <4> DEFINE d == Append(chain[n], Hash(b))
        <4>3. /\ Len(d) = Len(chain[n]) + 1 /\ d[Len(chain[n]) + 1] = Hash(b)
              /\ \A i \in 1..Len(chain[n]) : d[i] = chain[n][i]
          BY <2>0, <4>2, AppendOK
        <4> HIDE DEF d
        <4>4. chain'[n] = d /\ block'[b].prev = chain[n][Len(chain[n])]
          BY <2>0, <4>1, LastOK DEF Added, d
        <4>5. ASSUME NEW i \in 2..Len(d)
              PROVE  d[i][1] \in Mined' /\ block'[d[i][1]].prev = d[i - 1]
          <5>1. CASE i = Len(chain[n]) + 1
            <6>1. d[i] = Hash(b) /\ d[i][1] = b
              BY <4>2, <4>3, <5>1
            <6>2. d[i - 1] = chain[n][Len(chain[n])]
              BY <2>0, <4>3, <5>1
            <6> QED
              BY <4>4, <6>1, <6>2
          <5>2. CASE i # Len(chain[n]) + 1
            <6>1. i \in 2..Len(chain[n]) /\ i \in 1..Len(chain[n]) /\ i - 1 \in 1..Len(chain[n])
              BY <2>0, <4>3, <5>2
            <6>2. d[i] = chain[n][i] /\ d[i - 1] = chain[n][i - 1]
              BY <4>3, <6>1
            <6> QED
              BY <1>0, <2>0, <6>1, <6>2 DEF Links, Extends
          <5> QED
            BY <5>1, <5>2
        <4> QED
          BY <2>2, <4>4, <4>5 DEF Links
      <3>2. CASE Settles(n)
        <4> DEFINE d == Adjusted(chain[n])
        <4>1. /\ Len(d) = Len(chain[n])
              /\ \A i \in 1..Len(chain[n]) : d[i][1] = chain[n][i][1]
              /\ \A i \in 1..(Len(chain[n]) - 1) : d[i] = chain[n][i]
          BY <2>0, AdjustedOK
        <4> HIDE DEF d
        <4>2. chain'[n] = d
          BY <2>0, <3>2 DEF Settles, d
        <4>3. ASSUME NEW i \in 2..Len(d)
              PROVE  d[i][1] \in Mined' /\ block'[d[i][1]].prev = d[i - 1]
          <5>1. i \in 2..Len(chain[n]) /\ i \in 1..Len(chain[n]) /\ i - 1 \in 1..(Len(chain[n]) - 1)
            BY <2>0, <4>1
          <5>2. d[i][1] = chain[n][i][1] /\ d[i - 1] = chain[n][i - 1]
            BY <4>1, <5>1
          <5> QED
            BY <1>0, <2>0, <5>1, <5>2 DEF Links, Extends
        <4> QED
          BY <2>2, <4>2, <4>3 DEF Links
      <3>3. CASE CutsOff(n)
        <4>1. CASE chain' = [chain EXCEPT ![n] = <<<<n, 0>>>>]
          <5>1. chain'[n] = <<<<n, 0>>>> /\ Len(chain'[n]) = 1
            BY <2>0, <4>1
          <5> QED
            BY <2>2, <5>1 DEF Links
        <4>2. CASE \E k \in 1..Len(chain[n]) : chain' = [chain EXCEPT ![n] = SubSeq(@, 1, k)]
          <5>1. PICK k \in 1..Len(chain[n]) : chain' = [chain EXCEPT ![n] = SubSeq(@, 1, k)]
            BY <4>2
          <5> DEFINE d == SubSeq(chain[n], 1, k)
          <5>2. Len(d) = k /\ \A i \in 1..k : d[i] = chain[n][i]
            BY <2>0, CutOK
          <5> HIDE DEF d
          <5>3. chain'[n] = d
            BY <2>0, <5>1 DEF d
          <5>4. ASSUME NEW i \in 2..Len(d)
                PROVE  d[i][1] \in Mined' /\ block'[d[i][1]].prev = d[i - 1]
            <6>1. i \in 2..Len(chain[n]) /\ i \in 1..k /\ i - 1 \in 1..k
              BY <2>0, <5>2
            <6>2. d[i] = chain[n][i] /\ d[i - 1] = chain[n][i - 1]
              BY <5>2, <6>1
            <6> QED
              BY <1>0, <2>0, <6>1, <6>2 DEF Links, Extends
          <5> QED
            BY <2>2, <5>3, <5>4 DEF Links
        <4> QED
          BY <3>3, <4>1, <4>2 DEF CutsOff
      <3> QED
        BY <1>2, <3>1, <3>2, <3>3
    <2> QED
      BY <2>1, <2>2
  <1> QED
    BY <1>1, <1>2, ChainSteps

LEMMA LinksCorrect == Spec => []AllLinks
  <1>1. Init => AllLinks
    <2> SUFFICES ASSUME Init, NEW n \in Nodes PROVE Links(n)
      BY DEF AllLinks
    <2>1. chain[n] = <<Genesis>> /\ Len(chain[n]) = 1
      BY DEF Init
    <2> QED
      BY <2>1 DEF Links
  <1>2. Types /\ Types' /\ AllLinks /\ [Next]_vars => AllLinks'
    BY LinksStep
  <1> QED
    BY <1>1, <1>2, TypesCorrect, PTL DEF Spec

\* Every block on every chain holds the hash its predecessor has there, for
\* any number of nodes, blocks, adjustments and crashes.
THEOREM LinkedCorrect == Spec => []Linked
  <1>1. AllLinks => Linked
    BY DEF AllLinks, Links, Linked
  <1> QED
    BY <1>1, LinksCorrect, PTL

(***************************************************************************)
(* A running node only appends.                                            *)
(***************************************************************************)

\* A chain that agrees with another one below its tip.
LEMMA PrefixOK ==
  ASSUME NEW S, NEW s \in Seq(S), s # <<>>, NEW t \in Seq(S), Len(s) <= Len(t),
         \A i \in 1..(Len(s) - 1) : t[i] = s[i]
  PROVE  IsPrefix(Front(s), t)
  <1> DEFINE k == Len(s) - 1
  <1>1. k \in 0..Len(s) /\ k \in 0..Len(t)
    BY LastOK, LenProperties
  <1>2. /\ SubSeq(s, 1, k) \in Seq(S) /\ Len(SubSeq(s, 1, k)) = k
        /\ \A i \in 1..k : SubSeq(s, 1, k)[i] = s[i]
    BY <1>1, CutOK
  <1>3. /\ SubSeq(t, 1, k) \in Seq(S) /\ Len(SubSeq(t, 1, k)) = k
        /\ \A i \in 1..k : SubSeq(t, 1, k)[i] = t[i]
    BY <1>1, CutOK
  <1>4. SubSeq(s, 1, k) = SubSeq(t, 1, k)
    BY <1>2, <1>3, SeqEqual
  <1>5. Front(s) = SubSeq(s, 1, k)
    BY DEF Front
  <1>6. SubSeq(Front(s), 1, k) = Front(s)
    BY <1>2, <1>5, SubSeqFull
  <1>7. k <= Len(t)
    BY <1>1, LenProperties
  <1> HIDE DEF k
  <1> QED
    BY <1>2, <1>4, <1>5, <1>6, <1>7 DEF IsPrefix

Appends(n) == /\ IsPrefix(Front(chain[n]), chain'[n])
              /\ Len(chain[n]) <= Len(chain'[n])
              /\ Tip(n)[1] = chain'[n][Len(chain[n])][1]

LEMMA AppendsOK ==
  ASSUME Types, Types', NEW n \in Nodes, Len(chain[n]) <= Len(chain'[n]),
         \A i \in 1..(Len(chain[n]) - 1) : chain'[n][i] = chain[n][i],
         chain'[n][Len(chain[n])][1] = chain[n][Len(chain[n])][1]
  PROVE  Appends(n)
  <1>1. chain[n] \in Seq(Hashes) /\ chain[n] # <<>> /\ chain'[n] \in Seq(Hashes)
    BY DEF Types, ChainTypes
  <1>2. IsPrefix(Front(chain[n]), chain'[n])
    BY <1>1, PrefixOK
  <1> QED
    BY <1>1, <1>2, LastOK DEF Appends, Tip

LEMMA AppendsStep ==
  ASSUME Types, Types', [Next]_vars, crashes' = crashes, NEW n \in Nodes
  PROVE  Appends(n)
  <1>0. /\ chain \in [Nodes -> Seq(Hashes)] /\ chain[n] \in Seq(Hashes)
        /\ chain[n] # <<>> /\ Len(chain[n]) \in Nat \ {0} /\ crashes \in Nat
    BY LastOK DEF Types, ChainTypes, PoolTypes
  <1>1. CASE chain'[n] = chain[n]
    BY <1>0, <1>1, AppendsOK
  <1>2. ASSUME Grows(n) PROVE Appends(n)
    <2>1. PICK b \in Mined' : Added(n, b, block'[b])
      BY <1>2 DEF Grows
    <2>2. Hash(b) \in Hashes
      BY MinedOK DEF Types, Hash, Hashes, Mined
    <2>3. chain'[n] = Append(chain[n], Hash(b))
      BY <1>0, <2>1 DEF Added
    <2>4. /\ Len(chain'[n]) = Len(chain[n]) + 1
          /\ \A i \in 1..Len(chain[n]) : chain'[n][i] = chain[n][i]
      BY <1>0, <2>2, <2>3, AppendOK
    <2>5. /\ Len(chain[n]) <= Len(chain'[n])
          /\ Len(chain[n]) \in 1..Len(chain[n])
          /\ \A i \in 1..(Len(chain[n]) - 1) : i \in 1..Len(chain[n])
      BY <1>0, <2>4
    <2> QED
      BY <2>4, <2>5, AppendsOK
  <1>3. ASSUME Settles(n) PROVE Appends(n)
    <2>1. chain'[n] = Adjusted(chain[n])
      BY <1>0, <1>3 DEF Settles
    <2>2. /\ Len(chain'[n]) = Len(chain[n])
          /\ \A i \in 1..Len(chain[n]) : chain'[n][i][1] = chain[n][i][1]
          /\ \A i \in 1..(Len(chain[n]) - 1) : chain'[n][i] = chain[n][i]
      BY <1>0, <2>1, AdjustedOK
    <2>3. Len(chain[n]) \in 1..Len(chain[n]) /\ Len(chain[n]) <= Len(chain'[n])
      BY <1>0, <2>2
    <2> QED
      BY <2>2, <2>3, AppendsOK
  <1>4. ~CutsOff(n)
    BY <1>0 DEF CutsOff
  <1>5. ASSUME NEW m \in Nodes \ {n}, Grows(m) \/ Settles(m) PROVE chain'[n] = chain[n]
    BY <1>0, <1>5 DEF Grows, Added, Settles
  <1>6. \A m \in Nodes : ~CutsOff(m)
    BY <1>0 DEF CutsOff
  <1> QED
    BY <1>1, <1>2, <1>3, <1>5, <1>6, ChainSteps

\* While a node runs, what is on its chain stays there, whatever it mines,
\* receives, fetches or adjusts.
THEOREM AppendOnlyCorrect == Spec => AppendOnly
  <1> DEFINE A == \A n \in Nodes : \/ crashes' # crashes
                                   \/ /\ IsPrefix(Front(chain[n]), chain'[n])
                                      /\ Len(chain[n]) <= Len(chain'[n])
                                      /\ Tip(n)[1] = chain'[n][Len(chain[n])][1]
  <1>1. Types /\ Types' /\ [Next]_vars => A
    BY AppendsStep DEF Appends
  <1> HIDE DEF A
  <1>2. Types /\ Types' /\ [Next]_vars => [A]_vars
    BY <1>1
  <1>3. Spec => [][A]_vars
    BY <1>2, TypesCorrect, PTL DEF Spec
  <1> QED
    BY <1>3 DEF AppendOnly, A

(***************************************************************************)
(* No transaction twice.  anc[b] stands for the transactions of block b    *)
(* and of all the blocks below it: a block's prev fixes what they are, on  *)
(* whichever chains the block is.                                          *)
(***************************************************************************)

Known(h) == h[1] \in Mined \cup {0}
Of(anc, h) == IF h[1] \in Mined THEN anc[h[1]] ELSE {}

Fresh(anc, b) == /\ Known(block[b].prev)
                 /\ anc[b] = block[b].txs \cup Of(anc, block[b].prev)
                 /\ block[b].txs \cap Of(anc, block[b].prev) = {}
FreshWork(anc, n) == /\ Known(work[n].prev)
                     /\ work[n].txs \cap Of(anc, work[n].prev) = {}
FreshChain(anc, n) ==
  /\ chain[n][1][1] = 0
  /\ \A i, j \in 2..Len(chain[n]) :
        i <= j => block[chain[n][i][1]].txs \subseteq Of(anc, chain[n][j])
  /\ Of(anc, Last(chain[n])) \subseteq confirmed[n]

History(anc) == /\ \A b \in Mined : Fresh(anc, b)
                /\ \A n \in Nodes : FreshWork(anc, n) /\ FreshChain(anc, n)
TxsFresh == crashes = 0 => \E anc : History(anc)

\* What anc says of the blocks there were, before and after a step.
Agree(anc, a) == \A b \in Mined : a[b] = anc[b]

LEMMA MinedNext ==
  ASSUME BlockTypes'
  PROVE  Mined' = 1..Len(block') /\ 0 \notin Mined'
  BY LenProperties DEF BlockTypes, Mined

LEMMA OfKept ==
  ASSUME Types, Types', Extends, NEW anc, NEW a, Agree(anc, a), NEW h, Known(h)
  PROVE  Known(h)' /\ Of(a, h)' = Of(anc, h)
  <1>1. 0 \notin Mined /\ 0 \notin Mined'
    BY MinedOK, MinedNext DEF Types
  <1> QED
    BY <1>1 DEF Known, Of, Agree, Extends

\* A block that is known stays fresh.
LEMMA FreshKept ==
  ASSUME Types, Types', Extends, NEW anc, NEW a, Agree(anc, a), NEW b \in Mined, Fresh(anc, b)
  PROVE  Fresh(a, b)'
  <1>1. Known(block[b].prev)
    BY DEF Fresh
  <1>2. block'[b] = block[b] /\ b \in Mined' /\ a[b] = anc[b]
    BY DEF Extends, Agree
  <1>3. Known(block[b].prev)' /\ Of(a, block[b].prev)' = Of(anc, block[b].prev)
    <2> DEFINE h == block[b].prev
    <2>1. PICK g : g = h
      OBVIOUS
    <2>2. Known(g)' /\ Of(a, g)' = Of(anc, g)
      BY <1>1, <2>1, OfKept
    <2> QED
      BY <1>2, <2>1, <2>2 DEF Known, Of
  <1> QED
    BY <1>2, <1>3 DEF Fresh

\* There is an anc for the blocks after a step as well.
LEMMA FreshBlocks ==
  ASSUME Types, Types', [Next]_vars, NEW anc, History(anc)
  PROVE  \E a : Agree(anc, a) /\ \A b \in Mined' : Fresh(a, b)'
  <1>0. Extends /\ BlockTypes /\ BlockTypes'
    BY BlocksStay DEF Types
  <1>1. CASE block' = block
    <2>1. Agree(anc, anc) /\ Mined' = Mined
      BY <1>1 DEF Agree, Mined
    <2> QED
      BY <1>0, <2>1, FreshKept DEF History
  <1>2. ASSUME NEW n \in Nodes, Found(n)
        PROVE  \E a : Agree(anc, a) /\ \A b \in Mined' : Fresh(a, b)'
    <2>1. PICK new : new = Len(block) + 1
      OBVIOUS
    <2>2. PICK r : r = [prev |-> work[n].prev, txs |-> work[n].txs,
                        halvings |-> work[n].halvings]
      OBVIOUS
    <2>3. block' = Append(block, r) /\ r \in Blocks
      <3>1. work[n] \in Works
        BY DEF Types, WorkTypes
      <3> QED
        BY <1>2, <2>2, <3>1 DEF Found, Works, Blocks
    <2>4. block'[new] = r /\ new \notin Mined /\ Mined' = Mined \cup {new}
      <3>1. Len(block') = Len(block) + 1 /\ Len(block) \in Nat /\ block'[new] = r
        BY <1>0, <2>1, <2>3, AppendOK DEF BlockTypes
      <3>2. Mined = 1..Len(block) /\ Mined' = 1..Len(block')
        BY <1>0, MinedOK, MinedNext
      <3> QED
        BY <2>1, <3>1, <3>2
    <2>5. PICK a : a = [b \in Mined' |-> IF b \in Mined THEN anc[b]
                                         ELSE r.txs \cup Of(anc, r.prev)]
      OBVIOUS
    <2>6. Agree(anc, a) /\ a[new] = r.txs \cup Of(anc, r.prev)
      BY <2>4, <2>5 DEF Agree
    <2>7. \A b \in Mined : Fresh(a, b)'
      BY <1>0, <2>6, FreshKept DEF History
    <2>8. Fresh(a, new)'
      <3>1. Known(r.prev) /\ r.txs \cap Of(anc, r.prev) = {}
        BY <2>2 DEF History, FreshWork
      <3>2. PICK g : g = r.prev
        OBVIOUS
      <3>3. Known(g)' /\ Of(a, g)' = Of(anc, g)
        BY <1>0, <2>6, <3>1, <3>2, OfKept
      <3> QED
        BY <2>4, <2>6, <3>1, <3>2, <3>3 DEF Fresh, Known, Of
    <2> QED
      BY <2>4, <2>6, <2>7, <2>8
  <1>3. CASE Next
    <2>1. ASSUME ~ \E n \in Nodes : Found(n) PROVE block' = block
      BY <1>3, <2>1
      DEF Next, SyncSteps, AddSteps, Submit, Drop, Mine, GiveUp, Broadcast, Receive, Fetch,
          AddFetched, Resolve, Settle, Crash
    <2> QED
      BY <1>1, <1>2, <2>1
  <1>4. CASE UNCHANGED vars
    BY <1>1, <1>4 DEF vars
  <1> QED
    BY <1>3, <1>4

\* What a miner works on: what it did, nothing, or what it reads now.
LEMMA WorkSteps ==
  ASSUME Types, [Next]_vars, NEW n \in Nodes
  PROVE  \/ work'[n] = work[n]
         \/ work'[n].txs = {} /\ work'[n].prev = Genesis
         \/ work'[n].txs = mempool[n] /\ work'[n].prev = Last(chain[n])
  <1> DEFINE Goal == \/ work'[n] = work[n]
                     \/ work'[n].txs = {} /\ work'[n].prev = Genesis
                     \/ work'[n].txs = mempool[n] /\ work'[n].prev = Last(chain[n])
  <1>0. work \in [Nodes -> Works]
    BY DEF Types, WorkTypes
  <1>1. ASSUME NEW m \in Nodes, Mine(m) PROVE Goal
    BY <1>0, <1>1 DEF Mine, Tip
  <1>2. ASSUME NEW m \in Nodes,
               \/ GiveUp(m) \/ Broadcast(m) \/ Found(m) \/ \E torn \in BOOLEAN : Crash(m, torn)
        PROVE  Goal
    <2>1. \E k : work' = [work EXCEPT ![m] = [NoWork EXCEPT !.found = k]]
      <3>1. NoWork = [NoWork EXCEPT !.found = 0]
        BY DEF NoWork
      <3> QED
        BY <1>2, <3>1 DEF GiveUp, Broadcast, Found, Crash
    <2> QED
      BY <1>0, <2>1 DEF NoWork
  <1>3. ASSUME NEW m \in Nodes,
               \/ \E t \in Txs : Submit(m, t) \/ Drop(m, t)
               \/ \E b \in Mined : Receive(m, b)
               \/ SyncSteps(m) \/ \E th \in Threads : AddSteps(m, th)
        PROVE  Goal
    <2>1. work' = work
      BY <1>3 DEF Submit, Drop, Receive, SyncSteps, AddSteps, Fetch, AddFetched, Resolve, Settle
    <2> QED
      BY <2>1
  <1>4. ASSUME UNCHANGED vars PROVE Goal
    BY <1>4 DEF vars
  <1>5. ASSUME Next PROVE Goal
    <2> HIDE DEF Goal
    <2> QED
      BY <1>1, <1>2, <1>3, <1>5 DEF Next
  <1> QED
    BY <1>4, <1>5

\* Whatever is on a chain is known.
LEMMA ChainKnown ==
  ASSUME Types, AllLinks, NEW anc, NEW n \in Nodes, FreshChain(anc, n)
  PROVE  /\ \A i \in 1..Len(chain[n]) : Known(chain[n][i])
         /\ \A i \in 2..Len(chain[n]) : chain[n][i][1] \in Mined
         /\ Known(Last(chain[n]))
         /\ Len(chain[n]) \in Nat \ {0} /\ Last(chain[n]) = chain[n][Len(chain[n])]
  <1>1. /\ chain[n] \in Seq(Hashes) /\ chain[n] # <<>>
        /\ Len(chain[n]) \in Nat \ {0} /\ Last(chain[n]) = chain[n][Len(chain[n])]
    BY LastOK DEF Types, ChainTypes
  <1>2. \A i \in 2..Len(chain[n]) : chain[n][i][1] \in Mined
    BY DEF AllLinks, Links
  <1>3. \A i \in 1..Len(chain[n]) : i = 1 \/ i \in 2..Len(chain[n])
    BY <1>1
  <1>4. \A i \in 1..Len(chain[n]) : Known(chain[n][i])
    BY <1>2, <1>3 DEF Known, FreshChain
  <1> QED
    BY <1>1, <1>2, <1>4

LEMMA FreshWorkStep ==
  ASSUME Types, Types', AllLinks, [Next]_vars, crashes = 0, NEW anc, History(anc),
         NEW a, Agree(anc, a), NEW n \in Nodes
  PROVE  FreshWork(a, n)'
  <1>0. Extends /\ FreshWork(anc, n) /\ FreshChain(anc, n)
    BY BlocksStay DEF History
  <1>1. CASE work'[n] = work[n]
    <2>1. PICK g : g = work[n].prev
      OBVIOUS
    <2>2. Known(g) /\ work[n].txs \cap Of(anc, g) = {}
      BY <1>0, <2>1 DEF FreshWork
    <2>3. Known(g)' /\ Of(a, g)' = Of(anc, g)
      BY <1>0, <2>2, OfKept
    <2> QED
      BY <1>1, <2>1, <2>2, <2>3 DEF FreshWork, Known, Of
  <1>2. CASE work'[n].txs = {} /\ work'[n].prev = Genesis
    BY <1>2 DEF FreshWork, Known, Genesis
  <1>3. CASE work'[n].txs = mempool[n] /\ work'[n].prev = Last(chain[n])
    <2>1. PICK g : g = Last(chain[n])
      OBVIOUS
    <2>2. Known(g) /\ Of(anc, g) \subseteq confirmed[n]
      BY <1>0, <2>1, ChainKnown DEF FreshChain
    <2>3. Known(g)' /\ Of(a, g)' = Of(anc, g)
      BY <1>0, <2>2, OfKept
    <2>4. mempool[n] \cap confirmed[n] = {}
      BY DEF Types, PoolTypes
    <2>5. work'[n].txs \cap Of(a, g)' = {}
      BY <1>3, <2>2, <2>3, <2>4
    <2> QED
      BY <1>3, <2>1, <2>3, <2>5 DEF FreshWork, Known, Of
  <1> QED
    BY <1>1, <1>2, <1>3, WorkSteps

\* A chain whose ids stay what they are stays fresh.
LEMMA FreshChainKept ==
  ASSUME Types, Types', AllLinks, Extends, NEW anc, NEW a, Agree(anc, a),
         NEW n \in Nodes, FreshChain(anc, n), Len(chain'[n]) = Len(chain[n]),
         \A i \in 1..Len(chain[n]) : chain'[n][i][1] = chain[n][i][1],
         confirmed'[n] = confirmed[n]
  PROVE  FreshChain(a, n)'
  <1>1. /\ \A i \in 2..Len(chain[n]) : chain[n][i][1] \in Mined
        /\ Known(Last(chain[n]))
        /\ Len(chain[n]) \in Nat \ {0} /\ Last(chain[n]) = chain[n][Len(chain[n])]
    BY ChainKnown
  <1>2. \A i \in 2..Len(chain[n]) : i \in 1..Len(chain[n])
    OBVIOUS
  <1>3. /\ 1 \in 1..Len(chain[n]) /\ Len(chain[n]) \in 1..Len(chain[n])
    BY <1>1
  <1>4. Last(chain'[n]) = chain'[n][Len(chain[n])]
    BY DEF Last
  <1>5. chain'[n][1][1] = 0
    BY <1>3 DEF FreshChain
  <1>6. ASSUME NEW i \in 2..Len(chain[n]), NEW j \in 2..Len(chain[n]), i <= j
        PROVE  block'[chain'[n][i][1]].txs \subseteq Of(a, chain[n][j])'
    <2>1. chain'[n][i][1] = chain[n][i][1] /\ chain'[n][j][1] = chain[n][j][1]
      BY <1>2
    <2>2. chain[n][i][1] \in Mined /\ chain[n][j][1] \in Mined
      BY <1>1
    <2>3. block[chain[n][i][1]].txs \subseteq anc[chain[n][j][1]]
      BY <1>6, <2>2 DEF FreshChain, Of
    <2>4. chain'[n][j][1] \in Mined' /\ a[chain'[n][j][1]] = anc[chain[n][j][1]]
      BY <2>1, <2>2 DEF Extends, Agree
    <2>5. block'[chain'[n][i][1]] = block[chain[n][i][1]]
      BY <2>1, <2>2 DEF Extends
    <2> QED
      BY <2>3, <2>4, <2>5 DEF Of
  <1>7. Of(a, Last(chain[n]))' \subseteq confirmed'[n]
    <2>1. PICK g : g = Last(chain[n])
      OBVIOUS
    <2>2. Known(g) /\ Of(anc, g) \subseteq confirmed[n]
      BY <1>1, <2>1 DEF FreshChain
    <2>3. Of(a, g)' = Of(anc, g)
      BY <2>2, OfKept
    <2>4. Last(chain'[n])[1] = g[1]
      BY <1>1, <1>3, <1>4, <2>1
    <2> QED
      BY <2>2, <2>3, <2>4 DEF Of
  <1> QED
    BY <1>5, <1>6, <1>7 DEF FreshChain

\* A block on top of the tip brings nothing that the chain below it has.
LEMMA FreshChainGrows ==
  ASSUME Types, Types', AllLinks, Extends, NEW anc, NEW a, Agree(anc, a),
         NEW n \in Nodes, FreshChain(anc, n), NEW b \in Mined', Fresh(a, b)',
         Added(n, b, block'[b])
  PROVE  FreshChain(a, n)'
  <1> DEFINE k == Len(chain[n])
             r == block'[b]
  <1>0. /\ \A i \in 2..k : chain[n][i][1] \in Mined
        /\ Known(Last(chain[n])) /\ k \in Nat \ {0} /\ Last(chain[n]) = chain[n][k]
    BY ChainKnown
  <1>1. /\ chain \in [Nodes -> Seq(Hashes)] /\ chain[n] \in Seq(Hashes)
        /\ confirmed \in [Nodes -> SUBSET Txs]
    BY DEF Types, ChainTypes, PoolTypes
  <1>2. Hash(b) \in Hashes /\ Hash(b)[1] = b
    BY MinedNext DEF Types, Hash, Hashes
  <1>3. chain'[n] = Append(chain[n], Hash(b)) /\ confirmed'[n] = confirmed[n] \cup r.txs
    BY <1>1 DEF Added
  <1>4. /\ Len(chain'[n]) = k + 1 /\ chain'[n][k + 1] = Hash(b)
        /\ \A i \in 1..k : chain'[n][i] = chain[n][i]
    BY <1>1, <1>2, <1>3, AppendOK
  <1>6. a[b] = r.txs \cup Of(anc, Last(chain[n]))
    <2>1. PICK g : g = Last(chain[n])
      OBVIOUS
    <2>2. Of(a, g)' = Of(anc, g)
      BY <1>0, <2>1, OfKept
    <2>3. r.prev = g
      BY <2>1 DEF Added
    <2> QED
      BY <2>1, <2>2, <2>3 DEF Fresh, Of
  <1>7. chain'[n][1][1] = 0
    BY <1>0, <1>4 DEF FreshChain
  <1>8. ASSUME NEW i \in 2..(k + 1), NEW j \in 2..(k + 1), i <= j
        PROVE  block'[chain'[n][i][1]].txs \subseteq Of(a, chain[n][j])'
    <2>1. CASE i = k + 1
      <3>1. j = k + 1
        BY <1>0, <1>8, <2>1
      <3>2. chain'[n][i][1] = b /\ chain'[n][j][1] = b
        BY <1>2, <1>4, <2>1, <3>1
      <3>3. Of(a, chain[n][j])' = a[b]
        BY <3>2 DEF Of
      <3> QED
        BY <1>6, <3>2, <3>3
    <2>2. CASE i # k + 1
      <3>1. i \in 2..k /\ i \in 1..k /\ k \in 2..k /\ i <= k
        BY <1>0, <2>2
      <3>2. /\ chain'[n][i] = chain[n][i] /\ chain[n][i][1] \in Mined
            /\ block'[chain[n][i][1]] = block[chain[n][i][1]]
        BY <1>0, <1>4, <3>1 DEF Extends
      <3>3. CASE j = k + 1
        <4>1. block[chain[n][i][1]].txs \subseteq Of(anc, Last(chain[n]))
          BY <1>0, <3>1 DEF FreshChain
        <4>2. chain'[n][j][1] = b
          BY <1>2, <1>4, <3>3
        <4>3. Of(a, chain[n][j])' = a[b]
          BY <4>2 DEF Of
        <4> QED
          BY <1>6, <3>2, <4>1, <4>3
      <3>4. CASE j # k + 1
        <4>1. j \in 2..k /\ j \in 1..k
          BY <1>0, <3>4
        <4>2. block[chain[n][i][1]].txs \subseteq anc[chain[n][j][1]]
          BY <1>0, <1>8, <3>1, <4>1 DEF FreshChain, Of
        <4>3. chain'[n][j] = chain[n][j] /\ chain[n][j][1] \in Mined
          BY <1>0, <1>4, <4>1
        <4>4. Of(a, chain[n][j])' = anc[chain[n][j][1]]
          BY <4>3 DEF Of, Extends, Agree
        <4> QED
          BY <3>2, <4>2, <4>4
      <3> QED
        BY <3>3, <3>4
    <2> QED
      BY <2>1, <2>2
  <1>9. Of(a, Last(chain[n]))' \subseteq confirmed'[n]
    <2>1. Last(chain'[n])[1] = b
      BY <1>2, <1>4 DEF Last
    <2>2. Of(anc, Last(chain[n])) \subseteq confirmed[n]
      BY DEF FreshChain
    <2>3. Of(a, Last(chain[n]))' = a[b]
      BY <2>1 DEF Of
    <2> QED
      BY <1>3, <1>6, <2>2, <2>3
  <1> HIDE DEF k, r
  <1>10. Len(chain'[n]) = k + 1
    BY <1>4 DEF k
  <1> QED
    BY <1>7, <1>8, <1>9, <1>10 DEF FreshChain

LEMMA FreshChainStep ==
  ASSUME Types, Types', AllLinks, [Next]_vars, crashes' = crashes, NEW anc, History(anc),
         NEW a, Agree(anc, a), \A b \in Mined' : Fresh(a, b)', NEW n \in Nodes
  PROVE  FreshChain(a, n)'
  <1>0. /\ Extends /\ FreshChain(anc, n) /\ crashes \in Nat
        /\ chain \in [Nodes -> Seq(Hashes)] /\ chain[n] \in Seq(Hashes) /\ chain[n] # <<>>
    BY BlocksStay DEF History, Types, ChainTypes, PoolTypes
  <1>1. CASE chain'[n] = chain[n] /\ confirmed'[n] = confirmed[n]
    BY <1>0, <1>1, FreshChainKept
  <1>2. ASSUME Grows(n) PROVE FreshChain(a, n)'
    <2>1. PICK b \in Mined' : Added(n, b, block'[b])
      BY <1>2 DEF Grows
    <2> QED
      BY <1>0, <2>1, FreshChainGrows
  <1>3. ASSUME Settles(n) PROVE FreshChain(a, n)'
    <2>1. chain'[n] = Adjusted(chain[n]) /\ confirmed'[n] = confirmed[n]
      BY <1>0, <1>3 DEF Settles
    <2>2. /\ Len(chain'[n]) = Len(chain[n])
          /\ \A i \in 1..Len(chain[n]) : chain'[n][i][1] = chain[n][i][1]
      BY <1>0, <2>1, AdjustedOK
    <2> QED
      BY <1>0, <2>1, <2>2, FreshChainKept
  <1>4. \A m \in Nodes : ~CutsOff(m)
    BY <1>0 DEF CutsOff
  <1>5. ASSUME NEW m \in Nodes \ {n}, Grows(m) \/ Settles(m)
        PROVE  chain'[n] = chain[n] /\ confirmed'[n] = confirmed[n]
    <2>1. confirmed \in [Nodes -> SUBSET Txs]
      BY DEF Types, PoolTypes
    <2> QED
      BY <1>0, <1>5, <2>1 DEF Grows, Added, Settles
  <1> QED
    BY <1>1, <1>2, <1>3, <1>4, <1>5, ChainSteps

LEMMA TxsStep ==
  ASSUME Types, Types', AllLinks, TxsFresh, [Next]_vars
  PROVE  TxsFresh'
  <1> SUFFICES ASSUME crashes' = 0 PROVE \E a : History(a)'
    BY DEF TxsFresh
  <1>1. crashes' = crashes \/ crashes' = crashes + 1
    BY DEF Next, vars, SyncSteps, AddSteps, Submit, Drop, Mine, GiveUp, Found, Broadcast,
           Receive, Fetch, AddFetched, Resolve, Settle, Crash
  <1>2. crashes = 0 /\ crashes' = crashes
    BY <1>1 DEF Types, PoolTypes
  <1>3. PICK anc : History(anc)
    BY <1>2 DEF TxsFresh
  <1>4. PICK a : Agree(anc, a) /\ \A b \in Mined' : Fresh(a, b)'
    BY <1>3, FreshBlocks
  <1>5. \A n \in Nodes : FreshWork(a, n)' /\ FreshChain(a, n)'
    BY <1>2, <1>3, <1>4, FreshWorkStep, FreshChainStep
  <1>6. History(a)'
    BY <1>4, <1>5 DEF History
  <1> QED
    BY <1>6

LEMMA TxsCorrect == Spec => []TxsFresh
  <1>1. Init => TxsFresh
    <2> SUFFICES ASSUME Init PROVE \E anc : History(anc)
      BY DEF TxsFresh
    <2>1. PICK anc : anc = <<>>
      OBVIOUS
    <2>2. Mined = {}
      BY DEF Init, Mined
    <2>3. ASSUME NEW n \in Nodes PROVE FreshWork(anc, n) /\ FreshChain(anc, n)
      <3>1. chain[n] = <<Genesis>> /\ work[n] = NoWork /\ Len(chain[n]) = 1
        BY DEF Init
      <3>2. FreshWork(anc, n)
        BY <2>2, <3>1 DEF FreshWork, Known, Of, NoWork, Genesis
      <3>3. \A h : Of(anc, h) = {}
        BY <2>2 DEF Of
      <3> QED
        BY <3>1, <3>2, <3>3 DEF FreshChain, Genesis
    <2> QED
      BY <2>2, <2>3 DEF History
  <1>2. Types /\ Types' /\ AllLinks /\ TxsFresh /\ [Next]_vars => TxsFresh'
    BY TxsStep
  <1> QED
    BY <1>1, <1>2, TypesCorrect, LinksCorrect, PTL DEF Spec

\* As long as no node was restarted, no chain carries a transaction twice, for
\* any number of nodes, transactions and blocks.
THEOREM TxOnceCorrect == Spec => []TxOnce
  <1>1. ASSUME Types, AllLinks, TxsFresh PROVE TxOnce
    <2> SUFFICES ASSUME crashes = 0, NEW n \in Nodes,
                        NEW i \in 2..Len(chain[n]), NEW j \in 2..Len(chain[n]), i # j
                 PROVE  block[chain[n][i][1]].txs \cap block[chain[n][j][1]].txs = {}
      BY DEF TxOnce
    <2>1. PICK anc : History(anc)
      BY <1>1 DEF TxsFresh
    <2>2. FreshChain(anc, n) /\ Len(chain[n]) \in Nat
      BY <1>1, <2>1, ChainKnown DEF History
    <2>3. ASSUME NEW p \in 2..Len(chain[n]), NEW q \in 2..Len(chain[n]), p < q
          PROVE  block[chain[n][p][1]].txs \cap block[chain[n][q][1]].txs = {}
      <3>1. q - 1 \in 2..Len(chain[n]) /\ p <= q - 1
        BY <2>2, <2>3
      <3>2. /\ chain[n][q][1] \in Mined
            /\ block[chain[n][q][1]].prev = chain[n][q - 1]
        BY <1>1 DEF AllLinks, Links
      <3>3. block[chain[n][p][1]].txs \subseteq Of(anc, chain[n][q - 1])
        BY <2>2, <3>1 DEF FreshChain
      <3>4. block[chain[n][q][1]].txs \cap Of(anc, chain[n][q - 1]) = {}
        BY <2>1, <3>2 DEF History, Fresh
      <3> QED
        BY <3>3, <3>4
    <2>4. i < j \/ j < i
      BY <2>2
    <2> QED
      BY <2>3, <2>4
  <1> QED
    BY <1>1, TypesCorrect, LinksCorrect, TxsCorrect, PTL

(***************************************************************************)
(* One history.                                                            *)
(***************************************************************************)

\* A block that is on two chains, or twice on one, is at the same height, and
\* below it the chains are the same: forks never come together again, although
\* bits are overwritten in blocks that are on a chain, blocks arrive in any
\* order and nodes restart from old files or with a genesis block of their own.
OneHistory ==
  \A n, m \in Nodes : \A i \in 1..Len(chain[n]), k \in 1..Len(chain[m]) :
    chain[n][i][1] = chain[m][k][1] =>
      i = k /\ \A j \in 1..(i - 1) : chain[n][j] = chain[m][j]

\* At the bottom of every chain is a genesis block.
Founded == \A n \in Nodes : chain[n][1][1] \in Nodes \cup {0}

\* Whatever a step does to a chain, all but the block it ends in was there
\* before, and so was the block at its bottom, or it is the node's own.
Keeps(n) ==
  /\ \A i \in 1..(Len(chain'[n]) - 1) : i \in 1..Len(chain[n]) /\ chain'[n][i] = chain[n][i]
  /\ chain'[n][1][1] = chain[n][1][1] \/ chain'[n][1][1] = n

LEMMA KeepsStep ==
  ASSUME Types, Types', [Next]_vars, NEW n \in Nodes
  PROVE  Keeps(n)
  <1>0. /\ chain \in [Nodes -> Seq(Hashes)] /\ chain[n] \in Seq(Hashes)
        /\ chain[n] # <<>> /\ Len(chain[n]) \in Nat \ {0}
    BY LastOK DEF Types, ChainTypes
  <1>1. CASE chain'[n] = chain[n]
    BY <1>0, <1>1 DEF Keeps
  <1>2. ASSUME Grows(n) PROVE Keeps(n)
    <2>1. PICK b \in Mined' : Added(n, b, block'[b])
      BY <1>2 DEF Grows
    <2>2. Hash(b) \in Hashes
      BY MinedOK DEF Types, Hash, Hashes, Mined
    <2>3. chain'[n] = Append(chain[n], Hash(b))
      BY <1>0, <2>1 DEF Added
    <2>4. /\ Len(chain'[n]) = Len(chain[n]) + 1
          /\ \A i \in 1..Len(chain[n]) : chain'[n][i] = chain[n][i]
      BY <1>0, <2>2, <2>3, AppendOK
    <2> QED
      BY <1>0, <2>4 DEF Keeps
  <1>3. ASSUME Settles(n) PROVE Keeps(n)
    <2>1. chain'[n] = Adjusted(chain[n])
      BY <1>0, <1>3 DEF Settles
    <2>2. /\ Len(chain'[n]) = Len(chain[n])
          /\ \A i \in 1..Len(chain[n]) : chain'[n][i][1] = chain[n][i][1]
          /\ \A i \in 1..(Len(chain[n]) - 1) : chain'[n][i] = chain[n][i]
      BY <1>0, <2>1, AdjustedOK
    <2> QED
      BY <1>0, <2>2 DEF Keeps
  <1>4. ASSUME CutsOff(n) PROVE Keeps(n)
    <2>1. CASE chain' = [chain EXCEPT ![n] = <<<<n, 0>>>>]
      <3>1. chain'[n] = <<<<n, 0>>>> /\ Len(chain'[n]) = 1
        BY <1>0, <2>1
      <3> QED
        BY <3>1 DEF Keeps
    <2>2. ASSUME NEW k \in 1..Len(chain[n]), chain' = [chain EXCEPT ![n] = SubSeq(@, 1, k)]
          PROVE  Keeps(n)
      <3>1. chain'[n] = SubSeq(chain[n], 1, k)
        BY <1>0, <2>2
      <3>2. /\ Len(chain'[n]) = k /\ k \in 0..Len(chain[n])
            /\ \A i \in 1..k : chain'[n][i] = chain[n][i]
        BY <1>0, <3>1, CutOK
      <3> QED
        BY <1>0, <3>2 DEF Keeps
    <2> QED
      BY <1>4, <2>1, <2>2 DEF CutsOff
  <1>5. ASSUME NEW m \in Nodes \ {n}, Grows(m) \/ Settles(m) \/ CutsOff(m)
        PROVE  chain'[n] = chain[n]
    BY <1>0, <1>5 DEF Grows, Added, Settles, CutsOff
  <1> QED
    BY <1>1, <1>2, <1>3, <1>4, <1>5, ChainSteps

\* The blocks of two chains, compared: what the block before a mined one is,
\* the mined one says.
LEMMA HistoryStep ==
  ASSUME Types, Types', AllLinks', Founded', OneHistory, [Next]_vars
  PROVE  OneHistory'
  <1> SUFFICES ASSUME NEW n \in Nodes, NEW m \in Nodes,
                      NEW i \in 1..Len(chain'[n]), NEW k \in 1..Len(chain'[m]),
                      chain'[n][i][1] = chain'[m][k][1]
               PROVE  i = k /\ \A j \in 1..(i - 1) : chain'[n][j] = chain'[m][j]
    BY DEF OneHistory
  <1>1. /\ Len(chain[n]) \in Nat \ {0} /\ Len(chain'[n]) \in Nat \ {0}
        /\ Len(chain[m]) \in Nat \ {0} /\ Len(chain'[m]) \in Nat \ {0}
    BY LastOK DEF Types, ChainTypes
  <1>2. Keeps(n) /\ Keeps(m)
    BY KeepsStep
  <1>3. Mined' \subseteq Nat \ {0}
    BY MinedNext DEF Types
  <1>4. ASSUME NEW p \in Nodes, NEW q \in Nodes, NEW j \in 2..Len(chain'[q])
        PROVE  chain'[p][1][1] # chain'[q][j][1]
    <2>1. chain'[q][j][1] \in Nat \ {0}
      BY <1>3 DEF AllLinks, Links
    <2>2. chain'[p][1][1] \in Nodes \cup {0}
      BY DEF Founded
    <2> QED
      BY <2>1, <2>2, BlockchainAssumption
  <1>5. CASE i = 1 \/ k = 1
    <2>1. i = 1 /\ k = 1
      BY <1>1, <1>4, <1>5
    <2> QED
      BY <2>1
  <1>6. CASE i # 1 /\ k # 1
    <2>1. i \in 2..Len(chain'[n]) /\ k \in 2..Len(chain'[m])
      BY <1>1, <1>6
    <2>2. chain'[n][i - 1] = chain'[m][k - 1]
      BY <2>1 DEF AllLinks, Links
    <2>3. /\ i - 1 \in 1..(Len(chain'[n]) - 1) /\ k - 1 \in 1..(Len(chain'[m]) - 1)
      BY <1>1, <2>1
    <2>4. /\ i - 1 \in 1..Len(chain[n]) /\ k - 1 \in 1..Len(chain[m])
          /\ chain[n][i - 1] = chain[m][k - 1]
      BY <1>2, <2>2, <2>3 DEF Keeps
    <2>5. i - 1 = k - 1 /\ \A j \in 1..(i - 1 - 1) : chain[n][j] = chain[m][j]
      BY <2>4 DEF OneHistory
    <2>6. ASSUME NEW j \in 1..(i - 1) PROVE chain'[n][j] = chain'[m][j]
      <3>1. j \in 1..(Len(chain'[n]) - 1) /\ j \in 1..(Len(chain'[m]) - 1)
        BY <1>1, <2>3, <2>5
      <3>2. chain'[n][j] = chain[n][j] /\ chain'[m][j] = chain[m][j]
        BY <1>2, <3>1 DEF Keeps
      <3>3. chain[n][j] = chain[m][j]
        <4>1. j = i - 1 \/ j \in 1..(i - 1 - 1)
          BY <2>1
        <4> QED
          BY <2>4, <2>5, <4>1
      <3> QED
        BY <3>2, <3>3
    <2> QED
      BY <2>1, <2>5, <2>6
  <1> QED
    BY <1>5, <1>6

LEMMA FoundedStep ==
  ASSUME Types, Types', Founded, [Next]_vars
  PROVE  Founded'
  BY KeepsStep DEF Founded, Keeps

\* Chains that have a block in common have everything below it in common, for
\* any number of nodes, blocks, adjustments and crashes.
THEOREM HistoryCorrect == Spec => []OneHistory
  <1>1. Init => Founded /\ OneHistory
    <2> SUFFICES ASSUME Init PROVE Founded /\ OneHistory
      OBVIOUS
    <2>1. \A n \in Nodes : chain[n] = <<Genesis>> /\ Len(chain[n]) = 1
      BY DEF Init
    <2> QED
      BY <2>1 DEF Founded, OneHistory, Genesis
  <1>2. Types /\ Types' /\ Founded /\ [Next]_vars => Founded'
    BY FoundedStep
  <1>3. Types /\ Types' /\ AllLinks' /\ Founded' /\ OneHistory /\ [Next]_vars => OneHistory'
    BY HistoryStep
  <1> QED
    BY <1>1, <1>2, <1>3, TypesCorrect, LinksCorrect, PTL DEF Spec
=============================================================================
