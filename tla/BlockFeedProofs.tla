--------------------------- MODULE BlockFeedProofs ---------------------------
(***************************************************************************)
(* Proofs about BlockFeed for every tree of blocks, every channel capacity *)
(* and any number of failures and captures.                                *)
(***************************************************************************)
EXTENDS BlockFeed, FiniteSetTheorems, TLAPS

\* The blocks on the stack: a branch, newest first, none of it ingested yet.
\* Heights fall along it, so no block is on it twice.
StackIsBranch ==
    /\ \A i \in 1..Len(stack) : stack[i] \notin seen /\ stack[i] # Genesis
    /\ \A i, j \in 1..Len(stack) : i < j => Height[stack[j]] < Height[stack[i]]
    /\ \A i \in 1..Len(stack) : i < Len(stack) => Parent[stack[i]] = stack[i + 1]

\* While the walk goes on, the cursor is the block below the stack.
CursorIsBelow ==
    pc \in {"walk", "fetch"} =>
        /\ remaining = Height[cursor]
        /\ \A i \in 1..Len(stack) : Height[cursor] < Height[stack[i]]
        /\ stack # <<>> => Parent[stack[Len(stack)]] = cursor
        /\ pc = "fetch" => cursor \notin seen /\ remaining > 0

\* When the ingest loop runs, the block to ingest next has its parent seen.
TopIsReady ==
    (pc = "ingest" /\ stack # <<>>) => Parent[stack[Len(stack)]] \in seen

\* Everything seen has its ancestors seen.
SeenIsClosed == \A b \in seen : b # Genesis => Parent[b] \in seen

IInv ==
    /\ TypeOK
    /\ StackIsBranch
    /\ CursorIsBelow
    /\ TopIsReady
    /\ SeenIsClosed
    /\ SeenIsIngested
    /\ IngestedOnce
    /\ ParentsFirst

-----------------------------------------------------------------------------
\* The parent of any block but genesis is a block, one lower.
LEMMA ParentBelow ==
    ASSUME NEW b \in Block, b # Genesis
    PROVE  /\ Parent[b] \in Block
           /\ Height[b] = Height[Parent[b]] + 1
           /\ Height[b] \in Nat /\ Height[Parent[b]] \in Nat
  BY ParentAssumption, HeightAssumption, GenesisAssumption

\* Only genesis has height 0.
LEMMA ZeroIsGenesis ==
    ASSUME NEW b \in Block, Height[b] = 0
    PROVE  b = Genesis
  BY ParentBelow

\* A block counts for a natural number of captured transactions.
LEMMA CapturedTxsNat ==
    ASSUME NEW c \in Capture, NEW b \in Block
    PROVE  CapturedTxs(c, b) \in Nat
<1> DEFINE D == DOMAIN BlockTxs[b]
           H == {i \in D : BlockTxs[b][i] \cap Tracked[c] # {}}
<1>1. D = 1..Len(BlockTxs[b]) /\ Len(BlockTxs[b]) \in Nat
  BY TxAssumption
<1>2. IsFiniteSet(D)
  BY <1>1, FS_Interval
<1>3. IsFiniteSet(H)
  BY <1>2, FS_Subset
<1> QED BY <1>3, FS_CardinalityType DEF CapturedTxs

\* Captures stay captures when one of them subscribes,
LEMMA StartCaptureType ==
    ASSUME TypeOK, NEW c \in Capture, StartCapture(c)
    PROVE  cap' \in [Capture -> CaptureRecord]
<1> DEFINE n == Len(sent) + 1
           q == cap[c]
<1>1. n \in Nat /\ q \in CaptureRecord
  BY DEF TypeOK
<1>2. cap' = [cap EXCEPT ![c] = [q EXCEPT !.state = "running", !.from = n, !.next = n]]
  BY DEF StartCapture, TypeOK
<1> HIDE DEF n, q
<1>3. [q EXCEPT !.state = "running", !.from = n, !.next = n] \in CaptureRecord
  BY <1>1 DEF CaptureRecord
<1> QED BY <1>2, <1>3 DEF TypeOK

\* when it receives a record,
LEMMA CaptureRecvType ==
    ASSUME TypeOK, NEW c \in Capture, CaptureRecv(c)
    PROVE  cap' \in [Capture -> CaptureRecord]
<1> DEFINE q == cap[c]
           t == RecordedTxs(c, sent[q.next])
           x == q.next + 1
           y == q.observed + t
<1>1. q \in CaptureRecord
  BY DEF TypeOK
<1>2. Oldest \in Nat /\ Oldest >= 1
  BY BoundAssumption DEF Oldest, TypeOK
<1>3. q.next \in 1..Len(sent) /\ q.observed \in Nat
  BY <1>1, <1>2 DEF CaptureRecv, CaptureRecord, TypeOK
<1>4. sent[q.next] \in Block
  BY <1>3 DEF TypeOK
<1>5. t \in Nat
  BY <1>4, CapturedTxsNat DEF RecordedTxs
<1>6. x \in Nat /\ y \in Nat
  BY <1>3, <1>5 DEF TypeOK
<1>7. cap' = [cap EXCEPT ![c] = [q EXCEPT !.next = x, !.observed = y]]
  BY <1>1 DEF CaptureRecv, TypeOK, CaptureRecord
<1> HIDE DEF q, x, y
<1>8. [q EXCEPT !.next = x, !.observed = y] \in CaptureRecord
  BY <1>1, <1>6 DEF CaptureRecord
<1> QED BY <1>7, <1>8 DEF TypeOK

\* and when it lags.
LEMMA CaptureLaggedType ==
    ASSUME TypeOK, NEW c \in Capture, CaptureLagged(c)
    PROVE  cap' \in [Capture -> CaptureRecord]
<1> DEFINE q == cap[c]
           x == Oldest
           y == q.skipped + (Oldest - q.next)
<1>1. q \in CaptureRecord
  BY DEF TypeOK
<1>2. x \in Nat
  BY BoundAssumption DEF Oldest, TypeOK
<1>3. q.next \in Nat /\ q.skipped \in Nat /\ q.next < x
  BY <1>1 DEF CaptureLagged, CaptureRecord
<1>4. y \in Nat
  BY <1>2, <1>3
<1>5. cap' = [cap EXCEPT ![c] = [q EXCEPT !.next = x, !.skipped = y]]
  BY <1>1 DEF CaptureLagged, TypeOK, CaptureRecord
<1> HIDE DEF q, x, y
<1>6. [q EXCEPT !.next = x, !.skipped = y] \in CaptureRecord
  BY <1>1, <1>2, <1>4 DEF CaptureRecord
<1> QED BY <1>5, <1>6 DEF TypeOK

-----------------------------------------------------------------------------
\* Every variable keeps its type in every step of the scanner, the node, the
\* cleanup and the captures.  The cursor stays a block only because the walk
\* counts down the height and so stops at genesis.
LEMMA TypeStep == TypeOK /\ CursorIsBelow /\ [Next]_vars => TypeOK'
<1> SUFFICES ASSUME TypeOK, CursorIsBelow, [Next]_vars PROVE TypeOK'
  OBVIOUS
<1> USE DEF TypeOK, nodeVars, scanVars, feedVars, vars
<1> USE GenesisAssumption, ParentAssumption, HeightAssumption, BoundAssumption
<1>1. CASE NodeStores
  BY <1>1 DEF NodeStores
<1>2. CASE NodeReorgs
  BY <1>2 DEF NodeReorgs
<1>3. CASE ConsensusInfo
  BY <1>3 DEF ConsensusInfo
<1>4. CASE WalkSeen
  BY <1>4 DEF WalkSeen
<1>5. CASE WalkGenesis
  BY <1>5 DEF WalkGenesis
<1>6. CASE WalkFetch
  BY <1>6 DEF WalkFetch
<1>7. CASE StorageBlock
  <2>0. cursor # Genesis
    BY <1>7 DEF StorageBlock, CursorIsBelow
  <2>1. cursor' \in Block /\ remaining' \in Nat
    BY <1>7, <2>0, ParentBelow DEF StorageBlock
  <2>2. stack' \in Seq(Block)
    BY <1>7 DEF StorageBlock
  <2> QED BY <1>7, <2>1, <2>2 DEF StorageBlock
<1>8. CASE RequestFails
  BY <1>8 DEF RequestFails
<1>9. CASE PopAndIngest
  <2> DEFINE b == stack[Len(stack)]
  <2>1. b \in Block /\ Len(stack) \in 1..Len(stack)
    BY <1>9 DEF PopAndIngest
  <2>2. Len(BlockTxs[b]) \in Nat
    BY <2>1, TxAssumption
  <2>3. total' \in Nat /\ sent' \in Seq(Block) /\ seen' \subseteq Block
    BY <1>9, <2>1, <2>2 DEF PopAndIngest, Ingest
  <2>4. stack' \in Seq(Block)
    BY <1>9, <2>1 DEF PopAndIngest
  <2> QED BY <1>9, <2>3, <2>4 DEF PopAndIngest
<1>10. CASE CatchUpDone
  BY <1>10 DEF CatchUpDone, AfterCatchUp
<1>11. CASE Wake
  BY <1>11 DEF Wake
<1>12. CASE TaskAborted
  BY <1>12 DEF TaskAborted
<1>13. CASE CleanupAborts
  BY <1>13 DEF CleanupAborts
<1>14. CASE ContextDropped
  BY <1>14 DEF ContextDropped
<1>15. ASSUME NEW c \in Capture, StartCapture(c) PROVE TypeOK'
  <2>1. cap' \in [Capture -> CaptureRecord]
    BY <1>15, StartCaptureType
  <2> QED BY <1>15, <2>1 DEF StartCapture
<1>16. ASSUME NEW c \in Capture, CaptureRecv(c) PROVE TypeOK'
  <2>1. cap' \in [Capture -> CaptureRecord]
    BY <1>16, CaptureRecvType
  <2> QED BY <1>16, <2>1 DEF CaptureRecv
<1>17. ASSUME NEW c \in Capture, CaptureLagged(c) PROVE TypeOK'
  <2>1. cap' \in [Capture -> CaptureRecord]
    BY <1>17, CaptureLaggedType
  <2> QED BY <1>17, <2>1 DEF CaptureLagged
<1>18. ASSUME NEW c \in Capture, CaptureClosed(c) PROVE TypeOK'
  BY <1>18, ZenonT(30) DEF CaptureClosed, CaptureRecord
<1>19. CASE UNCHANGED vars
  BY <1>19
<1> QED
  BY <1>1, <1>2, <1>3, <1>4, <1>5, <1>6, <1>7, <1>8, <1>9, <1>10, <1>11, <1>12,
     <1>13, <1>14, <1>15, <1>16, <1>17, <1>18, <1>19
     DEF Next, Node, Scanner, CaptureTask

\* The types hold at the start.
LEMMA TypeInit == Init => TypeOK
<1> SUFFICES ASSUME Init PROVE TypeOK
  OBVIOUS
<1>1. cap \in [Capture -> CaptureRecord]
  BY DEF Init, CaptureRecord
<1>2. stack \in Seq(Block) /\ sent \in Seq(Block)
  BY DEF Init
<1>3. failures \in 0..MaxFailures
  BY BoundAssumption DEF Init
<1> QED BY <1>1, <1>2, <1>3, GenesisAssumption DEF Init, TypeOK

\* The inductive invariant holds at the start.
LEMMA InvInit == Init => IInv
<1> SUFFICES ASSUME Init PROVE IInv
  OBVIOUS
<1>1. TypeOK
  BY TypeInit
<1>2. stack = <<>> /\ sent = <<>> /\ seen = {} /\ pc = "info"
  BY DEF Init
<1>3. SeenIsIngested /\ IngestedOnce /\ ParentsFirst
  BY <1>2 DEF SeenIsIngested, SentBlocks, IngestedOnce, ParentsFirst
<1> QED
  BY <1>1, <1>2, <1>3 DEF IInv, StackIsBranch, CursorIsBelow, TopIsReady, SeenIsClosed

\* A step that leaves the scanner's walk, the seen set and the channel alone
\* preserves the invariant.
LEMMA InvFrame ==
    ASSUME IInv, TypeOK', UNCHANGED <<stack, seen, sent>>,
           \/ UNCHANGED <<pc, cursor, remaining>>
           \/ pc' \notin {"walk", "fetch", "ingest"}
    PROVE  IInv'
<1>1. SeenIsIngested' /\ IngestedOnce' /\ ParentsFirst'
  BY DEF IInv, SeenIsIngested, SentBlocks, IngestedOnce, ParentsFirst
<1>2. StackIsBranch' /\ SeenIsClosed'
  BY DEF IInv, StackIsBranch, SeenIsClosed
<1>3. CursorIsBelow' /\ TopIsReady'
  BY DEF IInv, CursorIsBelow, TopIsReady
<1> QED BY <1>1, <1>2, <1>3 DEF IInv

\* A step that empties the stack and does not walk or ingest preserves it too.
LEMMA InvReset ==
    ASSUME IInv, TypeOK', UNCHANGED <<seen, sent>>, stack' = <<>>,
           pc' \notin {"walk", "fetch", "ingest"}
    PROVE  IInv'
<1>1. SeenIsIngested' /\ IngestedOnce' /\ ParentsFirst'
  BY DEF IInv, SeenIsIngested, SentBlocks, IngestedOnce, ParentsFirst
<1>2. StackIsBranch' /\ SeenIsClosed'
  BY DEF IInv, StackIsBranch, SeenIsClosed
<1>3. CursorIsBelow' /\ TopIsReady'
  BY DEF CursorIsBelow, TopIsReady
<1> QED BY <1>1, <1>2, <1>3 DEF IInv

\* Every step preserves the inductive invariant.
LEMMA InvStep == IInv /\ [Next]_vars => IInv'
<1> SUFFICES ASSUME IInv, [Next]_vars PROVE IInv'
  OBVIOUS
<1> USE DEF nodeVars, scanVars, feedVars, vars
<1>0. TypeOK'
  BY TypeStep DEF IInv
<1>1. CASE Node \/ CleanupAborts \/ ContextDropped \/ UNCHANGED vars
  BY <1>0, <1>1, InvFrame
     DEF Node, NodeStores, NodeReorgs, CleanupAborts, ContextDropped
<1>2. ASSUME NEW c \in Capture, StartCapture(c) \/ CaptureTask(c) PROVE IInv'
  BY <1>0, <1>2, InvFrame
     DEF StartCapture, CaptureTask, CaptureRecv, CaptureLagged, CaptureClosed
<1>3. CASE CatchUpDone \/ Wake
  BY <1>0, <1>3, InvFrame DEF CatchUpDone, AfterCatchUp, Wake, IInv, TypeOK
<1>4. CASE RequestFails \/ TaskAborted
  BY <1>0, <1>4, InvReset DEF RequestFails, TaskAborted, IInv, TypeOK
<1>5. CASE ConsensusInfo
  <2>1. SeenIsIngested' /\ IngestedOnce' /\ ParentsFirst'
    BY <1>5 DEF ConsensusInfo, IInv, SeenIsIngested, SentBlocks, IngestedOnce, ParentsFirst
  <2>2. StackIsBranch' /\ SeenIsClosed' /\ TopIsReady'
    BY <1>5 DEF ConsensusInfo, IInv, StackIsBranch, SeenIsClosed, TopIsReady
  <2>3. CursorIsBelow'
    BY <1>5 DEF ConsensusInfo, CursorIsBelow
  <2> QED BY <1>0, <2>1, <2>2, <2>3 DEF IInv
<1>6. CASE WalkSeen \/ WalkFetch
  <2>1. SeenIsIngested' /\ IngestedOnce' /\ ParentsFirst'
    BY <1>6 DEF WalkSeen, WalkFetch, IInv, SeenIsIngested, SentBlocks, IngestedOnce,
                ParentsFirst
  <2>2. StackIsBranch' /\ SeenIsClosed'
    BY <1>6 DEF WalkSeen, WalkFetch, IInv, StackIsBranch, SeenIsClosed
  <2>3. CursorIsBelow' /\ TopIsReady'
    BY <1>6 DEF WalkSeen, WalkFetch, IInv, CursorIsBelow, TopIsReady
  <2> QED BY <1>0, <2>1, <2>2, <2>3 DEF IInv
<1>7. CASE WalkGenesis
  <2>1. cursor = Genesis /\ cursor \in Block
    BY <1>7, ZeroIsGenesis DEF WalkGenesis, IInv, CursorIsBelow, TypeOK
  <2>2. SeenIsIngested' /\ IngestedOnce' /\ ParentsFirst'
    BY <1>7, <2>1 DEF WalkGenesis, IInv, SeenIsIngested, SentBlocks, IngestedOnce,
                      ParentsFirst
  <2>3. SeenIsClosed'
    BY <1>7, <2>1 DEF WalkGenesis, IInv, SeenIsClosed
  <2>4. StackIsBranch'
    BY <1>7, <2>1 DEF WalkGenesis, IInv, StackIsBranch
  <2>5. CursorIsBelow' /\ TopIsReady'
    BY <1>7 DEF WalkGenesis, IInv, CursorIsBelow, TopIsReady
  <2> QED BY <1>0, <2>2, <2>3, <2>4, <2>5 DEF IInv
<1>8. CASE StorageBlock
  <2> DEFINE n == Len(stack)
  <2>1. /\ stack \in Seq(Block) /\ n \in Nat
        /\ Len(stack') = n + 1
        /\ stack'[n + 1] = cursor
        /\ \A i \in 1..n : stack'[i] = stack[i]
        /\ stack' # <<>>
    <3>1. stack \in Seq(Block) /\ cursor \in Block /\ stack' = Append(stack, cursor)
      BY <1>8 DEF StorageBlock, IInv, TypeOK
    <3> QED BY <3>1
  <2>2. cursor \in Block /\ cursor # Genesis /\ cursor \notin seen
    BY <1>8, HeightAssumption DEF StorageBlock, IInv, CursorIsBelow, TypeOK
  <2>3. /\ Parent[cursor] \in Block
        /\ Height[cursor] = Height[Parent[cursor]] + 1
        /\ Height[Parent[cursor]] \in Nat
    BY <2>2, ParentBelow
  <2>4. \A i \in 1..n : Height[cursor] < Height[stack[i]] /\ Height[stack[i]] \in Nat
    BY <1>8, <2>1, HeightAssumption DEF StorageBlock, IInv, CursorIsBelow
  <2>5. n > 0 => Parent[stack[n]] = cursor
    BY <1>8, <2>1 DEF StorageBlock, IInv, CursorIsBelow
  <2>6. SeenIsIngested' /\ IngestedOnce' /\ ParentsFirst' /\ SeenIsClosed'
    BY <1>8 DEF StorageBlock, IInv, SeenIsIngested, SentBlocks, IngestedOnce,
                ParentsFirst, SeenIsClosed
  <2>7. StackIsBranch'
    <3>1. \A i \in 1..(n + 1) : stack'[i] \notin seen' /\ stack'[i] # Genesis
      BY <1>8, <2>1, <2>2 DEF StorageBlock, IInv, StackIsBranch
    <3>2. \A i, j \in 1..(n + 1) : i < j => Height[stack'[j]] < Height[stack'[i]]
      <4> SUFFICES ASSUME NEW i \in 1..(n + 1), NEW j \in 1..(n + 1), i < j
                   PROVE  Height[stack'[j]] < Height[stack'[i]]
        OBVIOUS
      <4>1. i \in 1..n /\ stack'[i] = stack[i]
        BY <2>1
      <4>2. CASE j = n + 1
        BY <2>1, <2>4, <4>1, <4>2
      <4>3. CASE j \in 1..n
        BY <2>1, <4>1, <4>3 DEF IInv, StackIsBranch
      <4> QED BY <2>1, <4>2, <4>3
    <3>3. \A i \in 1..(n + 1) : i < n + 1 => Parent[stack'[i]] = stack'[i + 1]
      BY <2>1, <2>5 DEF IInv, StackIsBranch
    <3> QED BY <2>1, <3>1, <3>2, <3>3 DEF StackIsBranch
  <2>8. CASE Parent[cursor] \in seen
    <3>1. pc' = "ingest" /\ seen' = seen
      BY <1>8, <2>8 DEF StorageBlock
    <3>2. CursorIsBelow' /\ TopIsReady'
      BY <2>1, <2>8, <3>1 DEF CursorIsBelow, TopIsReady
    <3> QED BY <1>0, <2>6, <2>7, <3>2 DEF IInv
  <2>9. CASE Parent[cursor] \notin seen
    <3>1. /\ pc' = "walk" /\ cursor' = Parent[cursor]
          /\ remaining' = Height[cursor] - 1
      BY <1>8, <2>3, <2>9 DEF StorageBlock, IInv, CursorIsBelow
    <3>2. \A i \in 1..(n + 1) : Height[cursor'] < Height[stack'[i]]
      <4> TAKE i \in 1..(n + 1)
      <4>1. CASE i = n + 1
        BY <2>1, <2>3, <3>1, <4>1
      <4>2. CASE i \in 1..n
        BY <2>1, <2>3, <2>4, <3>1, <4>2
      <4> QED BY <2>1, <4>1, <4>2
    <3>3. CursorIsBelow' /\ TopIsReady'
      BY <2>1, <2>3, <3>1, <3>2 DEF CursorIsBelow, TopIsReady
    <3> QED BY <1>0, <2>6, <2>7, <3>3 DEF IInv
  <2> QED BY <2>8, <2>9
<1>9. CASE PopAndIngest
  <2> DEFINE n == Len(stack)
             b == stack[n]
             m == Len(sent)
  <2>1. /\ stack \in Seq(Block) /\ n \in Nat /\ n > 0 /\ b \in Block
        /\ Len(stack') = n - 1
        /\ \A i \in 1..(n - 1) : stack'[i] = stack[i]
        /\ stack' = <<>> \/ n - 1 > 0
    <3>1. /\ stack \in Seq(Block) /\ stack # <<>>
          /\ stack' = SubSeq(stack, 1, Len(stack) - 1)
      BY <1>9 DEF PopAndIngest, IInv, TypeOK
    <3>2. n \in Nat /\ n > 0 /\ b \in Block
      BY <3>1
    <3>3. Len(stack') = n - 1 /\ \A i \in 1..(n - 1) : stack'[i] = stack[i]
      <4> DEFINE k == n - 1
      <4>1. k \in 0..Len(stack)
        BY <3>2
      <4>2. stack' = SubSeq(stack, 1, k)
        BY <3>1
      <4> HIDE DEF k
      <4>3. Len(stack') = k /\ \A i \in 1..k : stack'[i] = stack[i]
        BY <3>1, <4>1, <4>2
      <4> QED BY <4>3 DEF k
    <3>4. stack' \in Seq(Block)
      BY <1>0 DEF TypeOK
    <3>5. stack' = <<>> \/ n - 1 > 0
      BY <3>2, <3>3, <3>4
    <3> QED BY <3>1, <3>2, <3>3, <3>5
  <2>2. /\ sent \in Seq(Block) /\ m \in Nat
        /\ DOMAIN sent = 1..m /\ DOMAIN sent' = 1..(m + 1)
        /\ sent'[m + 1] = b
        /\ \A i \in 1..m : sent'[i] = sent[i]
    BY <1>9, <2>1 DEF PopAndIngest, Ingest, IInv, TypeOK
  <2>3. seen' = seen \cup {b} /\ pc' = "ingest" /\ pc = "ingest" /\ stack # <<>>
    BY <1>9 DEF PopAndIngest, IInv, TypeOK
  <2>4. b \notin seen /\ b # Genesis /\ Parent[b] \in seen
    BY <2>1, <2>3 DEF IInv, StackIsBranch, TopIsReady
  <2>5. SentBlocks' = SentBlocks \cup {b}
    BY <2>2 DEF SentBlocks
  <2>6. SeenIsIngested'
    BY <2>3, <2>4, <2>5 DEF IInv, SeenIsIngested
  <2>7. b \notin SentBlocks
    BY <2>4 DEF IInv, SeenIsIngested
  <2>8. IngestedOnce'
    BY <2>2, <2>7 DEF IInv, IngestedOnce, SentBlocks
  <2>9. Parent[b] = Genesis \/ \E j \in 1..m : sent[j] = Parent[b]
    BY <2>2, <2>4 DEF IInv, SeenIsIngested, SentBlocks
  <2>10. ParentsFirst'
    <3> SUFFICES ASSUME NEW i \in 1..(m + 1)
                 PROVE  /\ sent'[i] # Genesis
                        /\ \/ Parent[sent'[i]] = Genesis
                           \/ \E j \in 1..(i - 1) : sent'[j] = Parent[sent'[i]]
      BY <2>2 DEF ParentsFirst
    <3>1. CASE i = m + 1
      BY <2>2, <2>4, <2>9, <3>1
    <3>2. CASE i \in 1..m
      <4>1. sent[i] # Genesis /\ (Parent[sent[i]] = Genesis
                 \/ \E j \in 1..(i - 1) : sent[j] = Parent[sent[i]])
        BY <2>2, <3>2 DEF IInv, ParentsFirst
      <4> QED BY <2>2, <3>2, <4>1
    <3> QED BY <2>2, <3>1, <3>2
  <2>11. SeenIsClosed'
    BY <2>3, <2>4 DEF IInv, SeenIsClosed
  <2>12. StackIsBranch'
    <3>1. \A i \in 1..(n - 1) : Height[b] < Height[stack[i]]
      BY <2>1 DEF IInv, StackIsBranch
    <3>2. \A i \in 1..(n - 1) : stack[i] # b
      BY <2>1, <3>1, HeightAssumption
    <3>3. \A i \in 1..(n - 1) : stack'[i] \notin seen' /\ stack'[i] # Genesis
      BY <2>1, <2>3, <3>2 DEF IInv, StackIsBranch
    <3>4. \A i, j \in 1..(n - 1) : i < j => Height[stack'[j]] < Height[stack'[i]]
      BY <2>1 DEF IInv, StackIsBranch
    <3>5. \A i \in 1..(n - 1) : i < n - 1 => Parent[stack'[i]] = stack'[i + 1]
      BY <2>1, SMTT(30) DEF IInv, StackIsBranch
    <3> QED BY <2>1, <3>3, <3>4, <3>5 DEF StackIsBranch
  <2>13. CursorIsBelow' /\ TopIsReady'
    <3>1. n - 1 > 0 => Parent[stack'[n - 1]] = b
      BY <2>1 DEF IInv, StackIsBranch
    <3> QED BY <2>1, <2>3, <3>1 DEF CursorIsBelow, TopIsReady
  <2> QED BY <1>0, <2>6, <2>8, <2>10, <2>11, <2>12, <2>13 DEF IInv
<1> QED
  BY <1>1, <1>2, <1>3, <1>4, <1>5, <1>6, <1>7, <1>8, <1>9 DEF Next, Scanner

-----------------------------------------------------------------------------
\* The inductive invariant is an invariant of the feed.
THEOREM Invariant == Spec => []IInv
<1>1. Init => IInv
  BY InvInit
<1>2. IInv /\ [Next]_vars => IInv'
  BY InvStep
<1> QED BY <1>1, <1>2, PTL DEF Spec

\* The variables keep their types, and no block is ingested twice, whatever fails
\* and however the chain reorganises.
THEOREM SafetyHolds == Spec => []Safety
<1>1. IInv => Safety
  BY DEF IInv, Safety
<1> QED BY <1>1, Invariant, PTL

\* Every block is ingested after its parent.
THEOREM ParentBeforeChild == Spec => []ParentsFirst
<1>1. IInv => ParentsFirst
  BY DEF IInv
<1> QED BY <1>1, Invariant, PTL

\* Nothing is marked as seen that was not ingested, and nothing ingested is
\* forgotten.
THEOREM SeenMeansIngested == Spec => []SeenIsIngested
<1>1. IInv => SeenIsIngested
  BY DEF IInv
<1> QED BY <1>1, Invariant, PTL

-----------------------------------------------------------------------------
(* Sums over finite sets: the counters are compared with them.             *)

\* A set of naturals has a least element: induction in the form that the
\* proofs below use.
LEMMA LeastNatural ==
    ASSUME NEW S, S \subseteq Nat, S # {}
    PROVE  \E x \in S : \A y \in S : x <= y
<1>1. PICK x \in S : \A y \in S : ~(<<y, x>> \in OpToRel(<, Nat))
  BY WFMin, NatLessThanWellFounded
<1>2. ASSUME NEW y \in S PROVE x <= y
  <2>1. <<y, x>> \in Nat \X Nat
    OBVIOUS
  <2>2. ~(y < x)
    BY <1>1, <2>1 DEF OpToRel
  <2> QED
    BY <2>2
<1> QED
  BY <1>2

\* The sum of the weights w of the elements of S.
Sum(w, S) == MapThenSumSet(LAMBDA x : w[x], S)

\* The element that the sum takes out of s first.
Pick(s) == CHOOSE x \in s : TRUE

\* h gives the sum of every subset of S.
IsSum(h, w, S) ==
    h = [s \in SUBSET S |-> IF s = {} THEN 0 ELSE w[Pick(s)] + h[s \ {Pick(s)}]]

\* Taking an element out of a finite set.
LEMMA TakeOut ==
    ASSUME NEW s, IsFiniteSet(s), NEW x \in s
    PROVE  /\ IsFiniteSet(s \ {x})
           /\ Cardinality(s) \in Nat /\ Cardinality(s \ {x}) \in Nat
           /\ Cardinality(s \ {x}) = Cardinality(s) - 1
<1>1. IsFiniteSet(s \ {x}) /\ Cardinality(s \ {x}) = Cardinality(s) - 1
  BY FS_RemoveElement
<1>2. Cardinality(s) \in Nat /\ Cardinality(s \ {x}) \in Nat
  BY <1>1, FS_CardinalityType
<1> QED BY <1>1, <1>2

LEMMA PickIn ==
    ASSUME NEW s, s # {}
    PROVE  Pick(s) \in s
BY DEF Pick

\* The recursion, case by case.
SumSteps(h, w, S) ==
    /\ h[{}] = 0
    /\ \A s : s \subseteq S /\ s # {} => h[s] = w[Pick(s)] + h[s \ {Pick(s)}]

LEMMA SumStep ==
    ASSUME NEW w, NEW S, NEW h, IsSum(h, w, S)
    PROVE  SumSteps(h, w, S)
<1> DEFINE e(k, t) == IF t = {} THEN 0 ELSE w[Pick(t)] + k[t \ {Pick(t)}]
<1>1. h = [t \in SUBSET S |-> e(h, t)]
  BY DEF IsSum
<1> HIDE DEF e
<1>2. \A s : s \in SUBSET S => h[s] = e(h, s)
  BY <1>1
<1>3. \A s : s \subseteq S => h[s] = e(h, s)
  BY <1>2
<1>4. h[{}] = e(h, {})
  BY <1>3
<1>5. h[{}] = 0
  BY <1>4 DEF e
<1>6. ASSUME NEW s, s \subseteq S, s # {} PROVE h[s] = w[Pick(s)] + h[s \ {Pick(s)}]
  <2>1. h[s] = e(h, s)
    BY <1>3, <1>6
  <2> QED BY <1>6, <2>1 DEF e
<1> QED BY <1>5, <1>6 DEF SumSteps

SameOn(w, v, S) == \A x \in S : w[x] = v[x]

\* Sums of the same weights are the same.
LEMMA SumAgrees ==
    ASSUME NEW w, NEW v, NEW S, NEW T, NEW h, NEW g, NEW U,
           IsSum(h, w, S), IsSum(g, v, T), IsFiniteSet(U), U \subseteq S, U \subseteq T,
           SameOn(w, v, U)
    PROVE  h[U] = g[U]
<1>0. SumSteps(h, w, S) /\ SumSteps(g, v, T)
  BY SumStep
<1> DEFINE bad == {n \in Nat : \E s \in SUBSET U : Cardinality(s) = n /\ h[s] # g[s]}
<1>1. bad = {}
  <2> SUFFICES ASSUME bad # {} PROVE FALSE
    OBVIOUS
  <2>1. PICK n \in bad : \A m \in bad : n <= m
    <3>1. bad \subseteq Nat
      OBVIOUS
    <3> HIDE DEF bad
    <3> QED BY <3>1, LeastNatural
  <2>2. PICK s \in SUBSET U : Cardinality(s) = n /\ h[s] # g[s]
    BY <2>1
  <2>0. s \subseteq S /\ s \subseteq T
    OBVIOUS
  <2> HIDE DEF bad
  <2>3. s # {}
    BY <1>0, <2>2 DEF SumSteps
  <2> DEFINE x == Pick(s)
             r == s \ {x}
  <2>4. x \in s
    BY <2>3, PickIn
  <2>5. IsFiniteSet(s)
    BY FS_Subset
  <2>6. r \in SUBSET U /\ Cardinality(r) \in Nat /\ Cardinality(r) = n - 1 /\ n \in Nat
    <3> HIDE DEF x
    <3> QED BY <2>2, <2>4, <2>5, TakeOut
  <2>7. h[r] = g[r]
    <3>1. n - 1 \notin bad
      BY <2>1, <2>6
    <3> HIDE DEF r
    <3> QED BY <2>6, <3>1 DEF bad
  <2>8. h[s] = w[x] + h[r]
    BY <1>0, <2>3, <2>0 DEF SumSteps
  <2>9. g[s] = v[x] + g[r]
    BY <1>0, <2>3, <2>0 DEF SumSteps
  <2>10. w[x] = v[x]
    BY <2>4 DEF SameOn
  <2> HIDE DEF x, r
  <2> QED BY <2>2, <2>7, <2>8, <2>9, <2>10
<1>2. Cardinality(U) \in Nat
  BY FS_CardinalityType
<1> QED BY <1>1, <1>2

\* The sum of naturals is a natural.
LEMMA SumType ==
    ASSUME NEW w, NEW S, NEW h, NEW U,
           IsSum(h, w, S), IsFiniteSet(U), U \subseteq S, \A x \in U : w[x] \in Nat
    PROVE  h[U] \in Nat
<1>0. SumSteps(h, w, S)
  BY SumStep
<1> DEFINE bad == {n \in Nat : \E s \in SUBSET U : Cardinality(s) = n /\ h[s] \notin Nat}
<1>1. bad = {}
  <2> SUFFICES ASSUME bad # {} PROVE FALSE
    OBVIOUS
  <2>1. PICK n \in bad : \A m \in bad : n <= m
    <3>1. bad \subseteq Nat
      OBVIOUS
    <3> HIDE DEF bad
    <3> QED BY <3>1, LeastNatural
  <2>2. PICK s \in SUBSET U : Cardinality(s) = n /\ h[s] \notin Nat
    BY <2>1
  <2>0. s \subseteq S
    OBVIOUS
  <2> HIDE DEF bad
  <2>3. s # {}
    BY <1>0, <2>2 DEF SumSteps
  <2> DEFINE x == Pick(s)
             r == s \ {x}
  <2>4. x \in s
    BY <2>3, PickIn
  <2>5. IsFiniteSet(s)
    BY FS_Subset
  <2>6. r \in SUBSET U /\ Cardinality(r) \in Nat /\ Cardinality(r) = n - 1 /\ n \in Nat
    <3> HIDE DEF x
    <3> QED BY <2>2, <2>4, <2>5, TakeOut
  <2>7. h[r] \in Nat
    <3>1. n - 1 \notin bad
      BY <2>1, <2>6
    <3> HIDE DEF r
    <3> QED BY <2>6, <3>1 DEF bad
  <2>8. h[s] = w[x] + h[r]
    BY <1>0, <2>3, <2>0 DEF SumSteps
  <2>10. w[x] \in Nat
    BY <2>4
  <2> HIDE DEF x, r
  <2> QED BY <2>2, <2>7, <2>8, <2>10
<1>2. Cardinality(U) \in Nat
  BY FS_CardinalityType
<1> QED BY <1>1, <1>2

\* It does not matter which element is taken out first.
LEMMA SumOfRest ==
    ASSUME NEW w, NEW S, NEW h, NEW U,
           IsSum(h, w, S), IsFiniteSet(U), U \subseteq S, \A x \in U : w[x] \in Nat,
           NEW y \in U
    PROVE  h[U] = w[y] + h[U \ {y}]
<1>0. SumSteps(h, w, S)
  BY SumStep
<1> DEFINE bad == {n \in Nat : \E s \in SUBSET U : /\ Cardinality(s) = n
                                                   /\ \E z \in s : h[s] # w[z] + h[s \ {z}]}
<1>1. bad = {}
  <2> SUFFICES ASSUME bad # {} PROVE FALSE
    OBVIOUS
  <2>1. PICK n \in bad : \A m \in bad : n <= m
    <3>1. bad \subseteq Nat
      OBVIOUS
    <3> HIDE DEF bad
    <3> QED BY <3>1, LeastNatural
  <2>2. PICK s \in SUBSET U : Cardinality(s) = n /\ \E z \in s : h[s] # w[z] + h[s \ {z}]
    BY <2>1
  <2>3. PICK z \in s : h[s] # w[z] + h[s \ {z}]
    BY <2>2
  <2> DEFINE x == Pick(s)
  <2>4. x \in s
    BY <2>3, PickIn
  <2>5. h[s] = w[x] + h[s \ {x}]
    <3>1. s # {} /\ s \subseteq S
      OBVIOUS
    <3> HIDE DEF bad
    <3> QED BY <1>0, <3>1 DEF SumSteps
  <2> HIDE DEF x
  <2>6. x # z
    BY <2>3, <2>5
  <2>7. IsFiniteSet(s)
    BY FS_Subset
  <2>8. n \in Nat /\ n - 1 \in Nat /\ n - 1 \notin bad
    <3>1. n \in Nat /\ n - 1 \in Nat
      BY <2>2, <2>4, <2>7, TakeOut
    <3> HIDE DEF bad
    <3> QED BY <2>1, <3>1
  <2>9. h[s \ {x}] = w[z] + h[(s \ {x}) \ {z}]
    <3>1. z \in s \ {x} /\ s \ {x} \in SUBSET U /\ Cardinality(s \ {x}) = n - 1
      BY <2>2, <2>4, <2>6, <2>7, TakeOut
    <3> QED BY <2>8, <3>1
  <2>10. h[s \ {z}] = w[x] + h[(s \ {z}) \ {x}]
    <3>1. x \in s \ {z} /\ s \ {z} \in SUBSET U /\ Cardinality(s \ {z}) = n - 1
      BY <2>2, <2>4, <2>6, <2>7, TakeOut
    <3> QED BY <2>8, <3>1
  <2>11. (s \ {x}) \ {z} = (s \ {z}) \ {x}
    OBVIOUS
  <2>12. h[(s \ {x}) \ {z}] \in Nat
    <3> DEFINE r == (s \ {x}) \ {z}
    <3>1. IsFiniteSet(r) /\ r \subseteq S /\ \A k \in r : w[k] \in Nat
      BY <2>7, FS_Subset
    <3> HIDE DEF r
    <3>2. h[r] \in Nat
      BY <3>1, SumType
    <3> QED BY <3>2 DEF r
  <2>13. w[x] \in Nat /\ w[z] \in Nat
    BY <2>4
  <2> DEFINE rest == h[(s \ {x}) \ {z}]
  <2>14. h[s] = w[x] + (w[z] + rest) /\ h[s \ {z}] = w[x] + rest
    BY <2>5, <2>9, <2>10, <2>11
  <2>15. rest \in Nat
    BY <2>12
  <2> HIDE DEF rest
  <2>16. w[z] + h[s \ {z}] = w[x] + (w[z] + rest)
    BY <2>13, <2>14, <2>15
  <2> QED BY <2>3, <2>14, <2>16
<1>2. Cardinality(U) \in Nat
  BY FS_CardinalityType
<1> QED BY <1>1, <1>2

\* The recursion has a solution.
LEMMA SumExists ==
    ASSUME NEW w, NEW S, IsFiniteSet(S)
    PROVE  \E h : IsSum(h, w, S)
<1> DEFINE Sub(n) == {s \in SUBSET S : Cardinality(s) <= n}
           e(k, t) == IF t = {} THEN 0 ELSE w[Pick(t)] + k[t \ {Pick(t)}]
           Solved(n) == \E h : h = [t \in Sub(n) |-> e(h, t)]
           bad == {n \in Nat : ~Solved(n)}
<1>0. \A s \in SUBSET S : IsFiniteSet(s) /\ Cardinality(s) \in Nat
  BY FS_Subset, FS_CardinalityType
<1>1. Solved(0)
  <2>1. \A s \in Sub(0) : s = {}
    BY <1>0, FS_EmptySet
  <2>2. [t \in Sub(0) |-> 0] = [t \in Sub(0) |-> e([u \in Sub(0) |-> 0], t)]
    <3> HIDE DEF Sub
    <3> QED BY <2>1
  <2> HIDE DEF e, Sub
  <2> QED BY <2>2
<1>2. ASSUME NEW n \in Nat, Solved(n) PROVE Solved(n + 1)
  <2>1. PICK h : h = [t \in Sub(n) |-> e(h, t)]
    BY <1>2
  <2> DEFINE k == [t \in Sub(n + 1) |-> e(h, t)]
  <2>2. ASSUME NEW t \in Sub(n + 1) PROVE e(h, t) = e(k, t)
    <3>1. CASE t = {}
      BY <3>1
    <3>2. CASE t # {}
      <4> DEFINE r == t \ {Pick(t)}
      <4>1. Pick(t) \in t
        BY <3>2, PickIn
      <4>2. r \in Sub(n) /\ r \in Sub(n + 1)
        <5>1. r \in SUBSET S /\ Cardinality(r) = Cardinality(t) - 1 /\ Cardinality(t) \in Nat
          <6>1. IsFiniteSet(t) /\ t \in SUBSET S
            BY <1>0
          <6> QED BY <4>1, <6>1, TakeOut
        <5> HIDE DEF r
        <5> QED BY <5>1
      <4>3. k[r] = e(h, r) /\ h[r] = e(h, r)
        <5> HIDE DEF e, Sub, r
        <5> QED BY <2>1, <4>2
      <4> HIDE DEF k
      <4> QED BY <3>2, <4>3
    <3> QED BY <3>1, <3>2
  <2>3. k = [t \in Sub(n + 1) |-> e(k, t)]
    <3> HIDE DEF e, Sub
    <3> QED BY <2>2
  <2> HIDE DEF k, e, Sub
  <2> QED BY <2>3
<1>3. bad = {}
  <2> SUFFICES ASSUME bad # {} PROVE FALSE
    OBVIOUS
  <2> HIDE DEF Solved
  <2>1. PICK n \in bad : \A m \in bad : n <= m
    <3>1. bad \subseteq Nat
      OBVIOUS
    <3> HIDE DEF bad
    <3> QED BY <3>1, LeastNatural
  <2>2. n \in Nat /\ n # 0
    BY <1>1
  <2>3. n - 1 \in Nat /\ n - 1 \notin bad
    <3> HIDE DEF bad
    <3> QED BY <2>1, <2>2
  <2>4. Solved(n - 1 + 1)
    BY <1>2, <2>3
  <2>5. n - 1 + 1 = n
    BY <2>2
  <2> QED BY <2>4, <2>5
<1> DEFINE c == Cardinality(S)
<1>4. Solved(c)
  <2>1. c \in Nat
    BY <1>0
  <2> HIDE DEF Solved, c
  <2> QED BY <1>3, <2>1
<1>5. Sub(c) = SUBSET S
  <2>1. \A s \in SUBSET S : Cardinality(s) <= Cardinality(S)
    BY FS_Subset
  <2> QED BY <2>1
<1>6. PICK h : h = [t \in Sub(c) |-> e(h, t)]
  BY <1>4
<1>7. h = [t \in SUBSET S |-> e(h, t)]
  <2> HIDE DEF e, Sub
  <2> QED BY <1>5, <1>6
<1> QED BY <1>7 DEF IsSum

\* The sum is what the recursion computes.
LEMMA SumIsSum ==
    ASSUME NEW w, NEW S, IsFiniteSet(S)
    PROVE  \E h : IsSum(h, w, S) /\ Sum(w, S) = h[S]
<1> DEFINE g == CHOOSE g : IsSum(g, w, S)
<1>1. IsSum(g, w, S)
  BY SumExists, Zenon
<1>2. Sum(w, S) = g[S]
  BY DEF Sum, MapThenSumSet, MapThenFoldSet, IsSum, Pick
<1> QED BY <1>1, <1>2

-----------------------------------------------------------------------------
LEMMA SumEmpty == ASSUME NEW w PROVE Sum(w, {}) = 0
<1>1. PICK h : IsSum(h, w, {}) /\ Sum(w, {}) = h[{}]
  BY SumIsSum, FS_EmptySet
<1>2. SumSteps(h, w, {})
  BY <1>1, SumStep
<1> QED BY <1>1, <1>2 DEF SumSteps

LEMMA SumSame ==
    ASSUME NEW w, NEW v, NEW S, IsFiniteSet(S), SameOn(w, v, S)
    PROVE  Sum(w, S) = Sum(v, S)
<1>1. PICK h : IsSum(h, w, S) /\ Sum(w, S) = h[S]
  BY SumIsSum
<1>2. PICK g : IsSum(g, v, S) /\ Sum(v, S) = g[S]
  BY SumIsSum
<1>3. h[S] = g[S]
  <2>1. S \subseteq S
    OBVIOUS
  <2>2. IsSum(h, w, S) /\ IsSum(g, v, S)
    BY <1>1, <1>2
  <2> QED BY <2>1, <2>2, SumAgrees
<1> QED BY <1>1, <1>2, <1>3

\* One more element adds its weight.
LEMMA SumAdd ==
    ASSUME NEW w, NEW S, IsFiniteSet(S), NEW y, y \notin S, \A x \in S \cup {y} : w[x] \in Nat
    PROVE  Sum(w, S \cup {y}) = Sum(w, S) + w[y] /\ Sum(w, S) \in Nat
<1> DEFINE T == S \cup {y}
<1>1. IsFiniteSet(T)
  BY FS_AddElement
<1>2. PICK h : IsSum(h, w, S) /\ Sum(w, S) = h[S]
  BY SumIsSum
<1>3. PICK g : IsSum(g, w, T) /\ Sum(w, T) = g[T]
  BY <1>1, SumIsSum
<1>4. T \ {y} = S /\ y \in T /\ S \subseteq T
  OBVIOUS
<1>5. g[T] = w[y] + g[S]
  <2>1. \A x \in T : w[x] \in Nat
    OBVIOUS
  <2>0. T \subseteq T /\ y \in T
    OBVIOUS
  <2> HIDE DEF T
  <2>2. g[T] = w[y] + g[T \ {y}]
    BY <1>1, <1>3, <2>1, <2>0, SumOfRest
  <2> QED BY <1>4, <2>2
<1>6. h[S] = g[S] /\ h[S] \in Nat
  <2> HIDE DEF T
  <2>1. h[S] = g[S]
    <3>1. S \subseteq S /\ SameOn(w, w, S)
      BY DEF SameOn
    <3> QED BY <1>2, <1>3, <1>4, <3>1, SumAgrees
  <2>2. h[S] \in Nat
    BY <1>2, SumType
  <2> QED BY <2>1, <2>2
<1> QED BY <1>2, <1>3, <1>5, <1>6

LEMMA SumNat ==
    ASSUME NEW w, NEW S, IsFiniteSet(S), \A x \in S : w[x] \in Nat
    PROVE  Sum(w, S) \in Nat
<1>1. PICK h : IsSum(h, w, S) /\ Sum(w, S) = h[S]
  BY SumIsSum
<1>2. S \subseteq S
  OBVIOUS
<1>3. h[S] \in Nat
  BY <1>1, <1>2, SumType
<1> QED BY <1>1, <1>3

-----------------------------------------------------------------------------
(* The counters                                                            *)

\* The transactions of the blocks S, and those of the positions P of the channel s
\* that capture c looks for.
TxsIn(S) == MapThenSumSet(LAMBDA b : Len(BlockTxs[b]), S)
Due(c, s, P) == MapThenSumSet(LAMBDA p : CapturedTxs(c, s[p]), P)

\* Both are sums of weights.
Weight == [b \in Block |-> Len(BlockTxs[b])]
Captured(c, s) == [p \in DOMAIN s |-> CapturedTxs(c, s[p])]

LEMMA TxsInIsSum ==
    ASSUME NEW S, S \subseteq Block, IsFiniteSet(S)
    PROVE  TxsIn(S) = Sum(Weight, S)
<1> DEFINE e(k, t) == IF t = {} THEN 0 ELSE Len(BlockTxs[Pick(t)]) + k[t \ {Pick(t)}]
           P(k) == k = [t \in SUBSET S |-> e(k, t)]
           g == CHOOSE k : P(k)
<1>1. \A k : IsSum(k, Weight, S) <=> P(k)
  <2> SUFFICES ASSUME NEW k PROVE IsSum(k, Weight, S) <=> P(k)
    OBVIOUS
  <2> DEFINE d(t) == IF t = {} THEN 0 ELSE Weight[Pick(t)] + k[t \ {Pick(t)}]
  <2>1. \A t \in SUBSET S : d(t) = e(k, t)
    BY PickIn DEF Weight
  <2>2. IsSum(k, Weight, S) <=> k = [t \in SUBSET S |-> d(t)]
    BY DEF IsSum
  <2>3. [t \in SUBSET S |-> d(t)] = [t \in SUBSET S |-> e(k, t)]
    <3> HIDE DEF d, e
    <3> QED BY <2>1
  <2> HIDE DEF d, e
  <2> QED BY <2>2, <2>3
<1>2. PICK h : IsSum(h, Weight, S) /\ Sum(Weight, S) = h[S]
  BY SumIsSum
<1>3. P(g)
  <2>1. P(h)
    BY <1>1, <1>2
  <2> HIDE DEF P
  <2> QED BY <2>1
<1>4. TxsIn(S) = g[S]
  BY DEF TxsIn, MapThenSumSet, MapThenFoldSet, Pick
<1>5. IsSum(g, Weight, S)
  BY <1>1, <1>3
<1>6. g[S] = h[S]
  <2>1. S \subseteq S /\ SameOn(Weight, Weight, S)
    BY DEF SameOn
  <2> HIDE DEF g
  <2> QED BY <1>2, <1>5, <2>1, SumAgrees
<1> QED BY <1>2, <1>4, <1>6

LEMMA DueIsSum ==
    ASSUME NEW c, NEW s, NEW P, P \subseteq DOMAIN s, IsFiniteSet(P)
    PROVE  Due(c, s, P) = Sum(Captured(c, s), P)
<1> DEFINE w == Captured(c, s)
           e(k, t) == IF t = {} THEN 0 ELSE CapturedTxs(c, s[Pick(t)]) + k[t \ {Pick(t)}]
           Q(k) == k = [t \in SUBSET P |-> e(k, t)]
           g == CHOOSE k : Q(k)
<1>1. \A k : IsSum(k, w, P) <=> Q(k)
  <2> SUFFICES ASSUME NEW k PROVE IsSum(k, w, P) <=> Q(k)
    OBVIOUS
  <2> DEFINE d(t) == IF t = {} THEN 0 ELSE w[Pick(t)] + k[t \ {Pick(t)}]
  <2>1. \A t \in SUBSET P : d(t) = e(k, t)
    BY PickIn DEF Captured
  <2>2. IsSum(k, w, P) <=> k = [t \in SUBSET P |-> d(t)]
    BY DEF IsSum
  <2>3. [t \in SUBSET P |-> d(t)] = [t \in SUBSET P |-> e(k, t)]
    <3> HIDE DEF d, e
    <3> QED BY <2>1
  <2> HIDE DEF d, e
  <2> QED BY <2>2, <2>3
<1>2. PICK h : IsSum(h, w, P) /\ Sum(w, P) = h[P]
  BY SumIsSum
<1>3. Q(g)
  <2>1. Q(h)
    BY <1>1, <1>2
  <2> HIDE DEF Q
  <2> QED BY <2>1
<1>4. Due(c, s, P) = g[P]
  BY DEF Due, MapThenSumSet, MapThenFoldSet, Pick
<1>5. IsSum(g, w, P)
  BY <1>1, <1>3
<1>6. g[P] = h[P]
  <2>1. P \subseteq P /\ SameOn(w, w, P)
    BY DEF SameOn
  <2> HIDE DEF g, w
  <2> QED BY <1>2, <1>5, <2>1, SumAgrees
<1> QED BY <1>2, <1>4, <1>6

\* What the channel and the counter do in a step: nothing, or they take in a
\* block that was not ingested before.
LEMMA FeedStep ==
    ASSUME IInv, [Next]_vars
    PROVE  \/ UNCHANGED <<sent, total>>
           \/ /\ UNCHANGED cap
              /\ \E b \in Block \ SentBlocks :
                    sent' = Append(sent, b) /\ total' = total + Len(BlockTxs[b])
<1> USE DEF nodeVars, scanVars, feedVars, vars
<1>1. CASE PopAndIngest
  <2> DEFINE b == stack[Len(stack)]
  <2>1. Len(stack) \in 1..Len(stack) /\ b \in Block
    BY <1>1 DEF PopAndIngest, IInv, TypeOK
  <2>2. b \notin SentBlocks
    BY <2>1 DEF IInv, StackIsBranch, SeenIsIngested
  <2>3. sent' = Append(sent, b) /\ total' = total + Len(BlockTxs[b]) /\ UNCHANGED cap
    BY <1>1 DEF PopAndIngest, Ingest
  <2> HIDE DEF b
  <2> QED BY <2>1, <2>2, <2>3
<1>2. CASE Node \/ RequestFails \/ CleanupAborts \/ ContextDropped \/ UNCHANGED vars
  BY <1>2 DEF Node, NodeStores, NodeReorgs, RequestFails, CleanupAborts, ContextDropped
<1>3. CASE Scanner /\ ~PopAndIngest
  BY <1>3 DEF Scanner, ConsensusInfo, WalkSeen, WalkGenesis, WalkFetch, StorageBlock,
              CatchUpDone, Wake, TaskAborted
<1>4. ASSUME NEW c \in Capture, StartCapture(c) \/ CaptureTask(c)
      PROVE  UNCHANGED <<sent, total>>
  BY <1>4 DEF StartCapture, CaptureTask, CaptureRecv, CaptureLagged, CaptureClosed
<1> QED BY <1>1, <1>2, <1>3, <1>4 DEF Next

\* The counter of transactions follows the blocks.
LEMMA StatsStep == IInv /\ StatsExact /\ [Next]_vars => StatsExact'
<1> SUFFICES ASSUME IInv, StatsExact, [Next]_vars PROVE StatsExact'
  OBVIOUS
<1>1. total = TxsIn(SentBlocks)
  BY DEF StatsExact, TxsIn
<1>2. CASE UNCHANGED <<sent, total>>
  <2>1. SentBlocks' = SentBlocks
    BY <1>2 DEF SentBlocks
  <2>2. total' = TxsIn(SentBlocks')
    BY <1>1, <1>2, <2>1
  <2> QED BY <2>2 DEF StatsExact, TxsIn, MapThenSumSet, MapThenFoldSet
<1>3. ASSUME NEW b \in Block \ SentBlocks,
             sent' = Append(sent, b), total' = total + Len(BlockTxs[b])
      PROVE  StatsExact'
  <2>1. sent \in Seq(Block) /\ DOMAIN sent = 1..Len(sent) /\ Len(sent) \in Nat
    BY DEF IInv, TypeOK
  <2>2. SentBlocks' = SentBlocks \cup {b}
    <3>1. DOMAIN sent' = 1..(Len(sent) + 1)
      BY <1>3, <2>1
    <3>2. \A i \in 1..Len(sent) : sent'[i] = sent[i]
      BY <1>3, <2>1
    <3>3. sent'[Len(sent) + 1] = b
      BY <1>3, <2>1
    <3>4. \A i \in 1..(Len(sent) + 1) : i \in 1..Len(sent) \/ i = Len(sent) + 1
      BY <2>1
    <3>5. Len(sent) + 1 \in 1..(Len(sent) + 1) /\ 1..Len(sent) \subseteq 1..(Len(sent) + 1)
      BY <2>1
    <3> QED BY <2>1, <3>1, <3>2, <3>3, <3>4, <3>5 DEF SentBlocks
  <2>3. IsFiniteSet(SentBlocks) /\ SentBlocks \subseteq Block
    <3>1. IsFiniteSet(1..Len(sent))
      BY <2>1, FS_Interval
    <3>2. sent \in [1..Len(sent) -> SentBlocks]
      <4>1. \A i \in 1..Len(sent) : sent[i] \in SentBlocks
        BY <2>1 DEF SentBlocks
      <4>2. sent \in [1..Len(sent) -> Block]
        BY <2>1
      <4> QED BY <4>1, <4>2
    <3>3. sent \in Surjection(1..Len(sent), SentBlocks)
      BY <2>1, <3>2 DEF Surjection, SentBlocks
    <3>4. IsFiniteSet(SentBlocks)
      BY <3>1, <3>3, FS_Surjection
    <3> QED BY <2>1, <3>4 DEF SentBlocks
  <2>4. IsFiniteSet(SentBlocks \cup {b}) /\ SentBlocks \cup {b} \subseteq Block
    BY <2>3, FS_AddElement
  <2>5. \A x \in SentBlocks \cup {b} : Weight[x] \in Nat
    BY <2>4, TxAssumption DEF Weight
  <2>6. Sum(Weight, SentBlocks \cup {b}) = Sum(Weight, SentBlocks) + Weight[b]
    BY <2>3, <2>5, SumAdd
  <2>7. TxsIn(SentBlocks') = TxsIn(SentBlocks) + Len(BlockTxs[b])
    <3>1. TxsIn(SentBlocks) = Sum(Weight, SentBlocks)
      BY <2>3, TxsInIsSum
    <3>2. TxsIn(SentBlocks \cup {b}) = Sum(Weight, SentBlocks \cup {b})
      BY <2>4, TxsInIsSum
    <3>3. Weight[b] = Len(BlockTxs[b])
      BY DEF Weight
    <3> QED BY <2>2, <2>6, <3>1, <3>2, <3>3
  <2>8. total' = TxsIn(SentBlocks')
    BY <1>1, <1>3, <2>7
  <2> QED BY <2>8 DEF StatsExact, TxsIn, MapThenSumSet, MapThenFoldSet
<1> QED BY <1>2, <1>3, FeedStep

LEMMA StatsInit == Init => StatsExact
<1> SUFFICES ASSUME Init PROVE StatsExact
  OBVIOUS
<1>1. SentBlocks = {} /\ total = 0
  BY DEF Init, SentBlocks
<1>2. TxsIn({}) = 0
  BY TxsInIsSum, SumEmpty, FS_EmptySet
<1> QED BY <1>1, <1>2 DEF StatsExact, TxsIn

\* The number of transactions in BlockStats is exact: the blocks ingested, each
\* counted once, whatever fails and however the chain reorganises.
THEOREM StatsAreExact == Spec => []StatsExact
<1>1. Init => StatsExact
  BY StatsInit
<1>2. IInv /\ StatsExact /\ [Next]_vars => StatsExact'
  BY StatsStep
<1> QED BY <1>1, <1>2, Invariant, PTL DEF Spec

-----------------------------------------------------------------------------
(* What a capture has counted                                              *)

\* The record q of capture c agrees with the channel s: it has gone through
\* positions of the channel, and counted what it should unless it lagged.
Accounted(c, q, s) ==
    /\ q.state = "idle" => q.observed = 0 /\ q.skipped = 0
    /\ 1 <= q.from /\ q.from <= q.next /\ q.next <= Len(s) + 1
    /\ q.observed <= Due(c, s, q.from..(q.next - 1))
    /\ q.skipped = 0 => q.observed = Due(c, s, q.from..(q.next - 1))

CaptureInv == \A c \in Capture : Accounted(c, cap[c], sent)

\* No position, nothing due.
LEMMA DueNone ==
    ASSUME NEW c, NEW s
    PROVE  Due(c, s, {}) = 0
<1>1. {} \subseteq DOMAIN s /\ IsFiniteSet({})
  BY FS_EmptySet
<1>2. Due(c, s, {}) = Sum(Captured(c, s), {})
  BY <1>1, DueIsSum
<1> QED BY <1>2, SumEmpty

\* What is due is a number, and one more position adds its transactions.
LEMMA DueNext ==
    ASSUME NEW c \in Capture, NEW s \in Seq(Block), NEW f \in Nat \ {0}, NEW n \in 1..Len(s), f <= n
    PROVE  /\ Due(c, s, f..(n - 1)) \in Nat
           /\ Due(c, s, f..n) = Due(c, s, f..(n - 1)) + CapturedTxs(c, s[n])
<1> DEFINE w == Captured(c, s)
           P == f..(n - 1)
           Q == f..n
<1>1. Len(s) \in Nat /\ DOMAIN s = 1..Len(s) /\ n \in Nat /\ n - 1 \in Int /\ f \in Int /\ n \in Int
  OBVIOUS
<1>2. IsFiniteSet(P) /\ IsFiniteSet(Q)
  BY <1>1, FS_Interval
<1>3. P \subseteq DOMAIN s /\ Q \subseteq DOMAIN s
  BY <1>1
<1>4. Q = P \cup {n} /\ n \notin P
  BY <1>1
<1>5. \A x \in DOMAIN s : w[x] = CapturedTxs(c, s[x]) /\ w[x] \in Nat
  BY CapturedTxsNat DEF Captured
<1>6. Due(c, s, P) = Sum(w, P) /\ Due(c, s, Q) = Sum(w, Q)
  <2> HIDE DEF P, Q
  <2> QED BY <1>2, <1>3, DueIsSum
<1>7. n \in DOMAIN s
  BY <1>1
<1> HIDE DEF P, Q, w
<1>8. Sum(w, P \cup {n}) = Sum(w, P) + w[n] /\ Sum(w, P) \in Nat
  <2>1. \A x \in P \cup {n} : w[x] \in Nat
    BY <1>3, <1>5, <1>7
  <2> QED BY <1>2, <1>4, <2>1, SumAdd
<1>9. Due(c, s, P) \in Nat /\ Due(c, s, Q) = Due(c, s, P) + CapturedTxs(c, s[n])
  BY <1>4, <1>5, <1>6, <1>7, <1>8
<1> QED BY <1>9 DEF P, Q

LEMMA DueNat ==
    ASSUME NEW c \in Capture, NEW s \in Seq(Block), NEW f \in Nat \ {0}, NEW n \in Nat,
           n <= Len(s) + 1
    PROVE  Due(c, s, f..(n - 1)) \in Nat
<1> DEFINE w == Captured(c, s)
           P == f..(n - 1)
<1>1. IsFiniteSet(P)
  <2>1. n - 1 \in Int /\ f \in Int
    OBVIOUS
  <2> QED BY <2>1, FS_Interval
<1>2. P \subseteq DOMAIN s
  <2>1. DOMAIN s = 1..Len(s) /\ Len(s) \in Nat
    OBVIOUS
  <2> QED BY <2>1
<1>3. \A x \in P : w[x] \in Nat
  BY <1>2, CapturedTxsNat DEF Captured
<1> HIDE DEF P, w
<1>4. Sum(w, P) \in Nat
  BY <1>1, <1>3, SumNat
<1>5. Due(c, s, P) = Sum(w, P)
  BY <1>1, <1>2, DueIsSum DEF w
<1>6. Due(c, s, P) \in Nat
  BY <1>4, <1>5
<1> QED BY <1>6 DEF P

\* More positions, more due.
LEMMA DueMore ==
    ASSUME NEW c \in Capture, NEW s \in Seq(Block), NEW f \in Nat \ {0},
           NEW n \in Nat, NEW m \in Nat,
           f <= n, n <= m, m <= Len(s) + 1
    PROVE  Due(c, s, f..(n - 1)) <= Due(c, s, f..(m - 1))
<1> DEFINE D(k) == Due(c, s, f..(k - 1))
           bad == {k \in Nat : n <= k /\ k <= Len(s) + 1 /\ ~(D(n) <= D(k))}
<1>0. Len(s) \in Nat
  OBVIOUS
<1>1. \A k \in Nat : k <= Len(s) + 1 => D(k) \in Nat
  BY DueNat
<1>2. bad = {}
  <2> SUFFICES ASSUME bad # {} PROVE FALSE
    OBVIOUS
  <2>1. PICK k \in bad : \A j \in bad : k <= j
    <3>1. bad \subseteq Nat
      OBVIOUS
    <3> HIDE DEF bad
    <3> QED BY <3>1, LeastNatural
  <2> HIDE DEF D
  <2>2. k \in Nat /\ n <= k /\ k <= Len(s) + 1 /\ ~(D(n) <= D(k))
    OBVIOUS
  <2>3. k # n
    BY <1>0, <1>1, <2>2
  <2>4. k - 1 \in Nat /\ n <= k - 1 /\ k - 1 <= Len(s) + 1 /\ k - 1 \in 1..Len(s) /\ f <= k - 1
    BY <1>0, <2>2, <2>3
  <2>5. k - 1 \notin bad
    <3> HIDE DEF bad
    <3> QED BY <2>1, <2>2, <2>4
  <2>6. D(n) <= D(k - 1)
    BY <2>4, <2>5
  <2>7. D(k) = D(k - 1) + CapturedTxs(c, s[k - 1])
    <3>1. /\ Due(c, s, f..(k - 1 - 1)) \in Nat
          /\ Due(c, s, f..(k - 1)) = Due(c, s, f..(k - 1 - 1)) + CapturedTxs(c, s[k - 1])
      BY <2>4, DueNext
    <3> QED BY <3>1 DEF D
  <2>8. CapturedTxs(c, s[k - 1]) \in Nat
    BY <2>4, CapturedTxsNat
  <2>9. D(n) \in Nat /\ D(k - 1) \in Nat
    BY <1>0, <1>1, <2>2, <2>4
  <2> QED BY <2>2, <2>6, <2>7, <2>8, <2>9
<1> HIDE DEF D
<1>3. m \notin bad
  BY <1>2
<1>4. D(n) <= D(m)
  BY <1>3
<1> QED BY <1>4 DEF D

\* What is sent later changes nothing for the positions that were passed.
LEMMA DueLater ==
    ASSUME NEW c \in Capture, NEW s \in Seq(Block), NEW b \in Block,
           NEW f \in Nat \ {0}, NEW n \in Nat, n <= Len(s) + 1
    PROVE  Due(c, Append(s, b), f..(n - 1)) = Due(c, s, f..(n - 1))
<1> DEFINE t == Append(s, b)
           P == f..(n - 1)
<1>1. Len(s) \in Nat /\ DOMAIN s = 1..Len(s) /\ t \in Seq(Block) /\ DOMAIN t = 1..(Len(s) + 1)
  OBVIOUS
<1>2. \A i \in 1..Len(s) : t[i] = s[i]
  OBVIOUS
<1>3. P \subseteq DOMAIN s /\ P \subseteq DOMAIN t
  <2> HIDE DEF t
  <2> QED BY <1>1
<1>4. IsFiniteSet(P)
  <2>1. n - 1 \in Int /\ f \in Int
    OBVIOUS
  <2> QED BY <2>1, FS_Interval
<1> HIDE DEF t, P
<1>5. SameOn(Captured(c, t), Captured(c, s), P)
  BY <1>1, <1>2, <1>3 DEF SameOn, Captured
<1>6. Sum(Captured(c, t), P) = Sum(Captured(c, s), P)
  BY <1>4, <1>5, SumSame
<1>7. Due(c, t, P) = Sum(Captured(c, t), P) /\ Due(c, s, P) = Sum(Captured(c, s), P)
  BY <1>3, <1>4, DueIsSum
<1>8. Due(c, t, P) = Due(c, s, P)
  BY <1>6, <1>7
<1> QED BY <1>8 DEF t, P

\* The captures move one at a time, while the channel rests.
LEMMA CaptureMoves ==
    ASSUME [Next]_vars
    PROVE  \/ UNCHANGED cap
           \/ UNCHANGED sent /\ \E c \in Capture : StartCapture(c) \/ CaptureTask(c)
<1> USE DEF nodeVars, scanVars, feedVars, vars
<1>1. CASE Node \/ RequestFails \/ CleanupAborts \/ ContextDropped \/ UNCHANGED vars
  BY <1>1 DEF Node, NodeStores, NodeReorgs, RequestFails, CleanupAborts, ContextDropped
<1>2. CASE Scanner
  BY <1>2 DEF Scanner, ConsensusInfo, WalkSeen, WalkGenesis, WalkFetch, StorageBlock,
              PopAndIngest, CatchUpDone, Wake, TaskAborted
<1>3. ASSUME NEW c \in Capture, StartCapture(c) \/ CaptureTask(c)
      PROVE  UNCHANGED sent
  BY <1>3 DEF StartCapture, CaptureTask, CaptureRecv, CaptureLagged, CaptureClosed
<1> QED BY <1>1, <1>2, <1>3 DEF Next

LEMMA CaptureStep == IInv /\ CaptureInv /\ [Next]_vars => CaptureInv'
<1> SUFFICES ASSUME IInv, CaptureInv, [Next]_vars PROVE CaptureInv'
  OBVIOUS
<1>0. /\ sent \in Seq(Block) /\ Len(sent) \in Nat
      /\ cap \in [Capture -> CaptureRecord]
  BY DEF IInv, TypeOK
<1>1. CASE UNCHANGED cap
  <2>1. CASE UNCHANGED sent
    BY <1>1, <2>1 DEF CaptureInv
  <2>2. ASSUME NEW b \in Block, sent' = Append(sent, b) PROVE CaptureInv'
    <3> SUFFICES ASSUME NEW c \in Capture PROVE Accounted(c, cap[c], Append(sent, b))
      BY <1>1, <2>2 DEF CaptureInv
    <3> DEFINE q == cap[c]
               t == Append(sent, b)
    <3>1. q \in CaptureRecord /\ Accounted(c, q, sent)
      BY <1>0 DEF CaptureInv
    <3>2. Len(t) = Len(sent) + 1
      BY <1>0
    <3>3. q.from \in Nat \ {0} /\ q.next \in Nat /\ q.next <= Len(sent) + 1
      BY <3>1 DEF Accounted, CaptureRecord
    <3>4. Due(c, t, q.from..(q.next - 1)) = Due(c, sent, q.from..(q.next - 1))
      <4> HIDE DEF q
      <4> QED BY <1>0, <3>3, DueLater
    <3> HIDE DEF q, t
    <3>5. Accounted(c, q, t)
      BY <1>0, <3>1, <3>2, <3>3, <3>4 DEF Accounted
    <3> QED BY <3>5 DEF q, t
  <2> QED BY <2>1, <2>2, FeedStep
<1>2. ASSUME UNCHANGED sent, NEW c \in Capture, StartCapture(c) \/ CaptureTask(c)
      PROVE  CaptureInv'
  <2> DEFINE q == cap[c]
             r == cap'[c]
  <2>1. q \in CaptureRecord /\ Accounted(c, q, sent)
    BY <1>0 DEF CaptureInv
  <2>2. \A d \in Capture \ {c} : cap'[d] = cap[d]
    BY <1>0, <1>2 DEF StartCapture, CaptureTask, CaptureRecv, CaptureLagged, CaptureClosed
  <2>3. Accounted(c, r, sent)
    <3>1. CASE StartCapture(c)
      <4>1. r = [q EXCEPT !.state = "running", !.from = Len(sent) + 1, !.next = Len(sent) + 1]
        BY <1>0, <3>1 DEF StartCapture
      <4>2. q.observed = 0 /\ q.skipped = 0
        BY <2>1, <3>1 DEF StartCapture, Accounted
      <4>3. /\ r.state = "running" /\ r.from = Len(sent) + 1 /\ r.next = Len(sent) + 1
            /\ r.observed = 0 /\ r.skipped = 0
        BY <2>1, <4>1, <4>2 DEF CaptureRecord
      <4>4. r.from..(r.next - 1) = {}
        BY <1>0, <4>3
      <4> HIDE DEF r
      <4> QED BY <1>0, <4>3, <4>4, DueNone DEF Accounted
    <3>2. CASE CaptureRecv(c)
      <4>1. r = [q EXCEPT !.next = q.next + 1,
                          !.observed = q.observed + RecordedTxs(c, sent[q.next])]
        BY <1>0, <2>1, <3>2 DEF CaptureRecv, CaptureRecord
      <4>2. q.next <= Len(sent) /\ q.state = "running"
        BY <3>2 DEF CaptureRecv
      <4>3. /\ q.next \in 1..Len(sent) /\ q.from \in Nat \ {0} /\ q.from <= q.next
            /\ q.observed \in Nat /\ q.skipped \in Nat
        BY <1>0, <2>1, <4>2 DEF Accounted, CaptureRecord
      <4>4. RecordedTxs(c, sent[q.next]) = CapturedTxs(c, sent[q.next])
        <5>1. sent[q.next] \in Block /\ sent[q.next] # Genesis
          BY <1>0, <4>3 DEF IInv, ParentsFirst
        <5> QED BY <5>1, ParentAssumption DEF RecordedTxs
      <4>5. /\ r.state = "running" /\ r.from = q.from
            /\ r.next = q.next + 1 /\ r.skipped = q.skipped
            /\ r.observed = q.observed + CapturedTxs(c, sent[q.next])
        BY <2>1, <4>1, <4>2, <4>4 DEF CaptureRecord
      <4>6. CapturedTxs(c, sent[q.next]) \in Nat
        BY <1>0, <4>3, CapturedTxsNat
      <4> HIDE DEF q, r
      <4>7. /\ Due(c, sent, q.from..(q.next - 1)) \in Nat
            /\ Due(c, sent, q.from..q.next)
                   = Due(c, sent, q.from..(q.next - 1)) + CapturedTxs(c, sent[q.next])
        BY <1>0, <4>3, DueNext
      <4>8. r.next - 1 = q.next
        BY <4>3, <4>5
      <4>9. r.from..(r.next - 1) = q.from..q.next
        BY <4>5, <4>8
      <4>10. /\ q.observed <= Due(c, sent, q.from..(q.next - 1))
             /\ q.skipped = 0 => q.observed = Due(c, sent, q.from..(q.next - 1))
        BY <2>1 DEF Accounted
      <4>11. /\ r.observed <= Due(c, sent, r.from..(r.next - 1))
             /\ r.skipped = 0 => r.observed = Due(c, sent, r.from..(r.next - 1))
        BY <4>3, <4>5, <4>6, <4>7, <4>9, <4>10
      <4> QED BY <1>0, <4>3, <4>5, <4>11 DEF Accounted
    <3>3. CASE CaptureLagged(c)
      <4>1. r = [q EXCEPT !.next = Oldest, !.skipped = q.skipped + (Oldest - q.next)]
        BY <1>0, <2>1, <3>3 DEF CaptureLagged, CaptureRecord
      <4>2. q.next < Oldest /\ q.state = "running" /\ Oldest \in Nat /\ Oldest <= Len(sent) + 1
        BY <1>0, <3>3, BoundAssumption DEF CaptureLagged, Oldest
      <4>3. /\ q.next \in Nat /\ q.from \in Nat \ {0} /\ q.from <= q.next
            /\ q.observed \in Nat /\ q.skipped \in Nat
        BY <2>1 DEF Accounted, CaptureRecord
      <4>4. /\ r.state = "running" /\ r.from = q.from /\ r.next = Oldest
            /\ r.skipped = q.skipped + (Oldest - q.next) /\ r.observed = q.observed
        BY <2>1, <4>1, <4>2 DEF CaptureRecord
      <4> HIDE DEF q, r
      <4>0. q.next <= Oldest /\ q.next <= Len(sent) + 1 /\ q.from <= Oldest
        BY <1>0, <4>2, <4>3
      <4>5. Due(c, sent, q.from..(q.next - 1)) <= Due(c, sent, q.from..(Oldest - 1))
        BY <1>0, <4>2, <4>3, <4>0, DueMore
      <4>6. /\ Due(c, sent, q.from..(q.next - 1)) \in Nat
            /\ Due(c, sent, q.from..(Oldest - 1)) \in Nat
        BY <1>0, <4>2, <4>3, <4>0, DueNat
      <4>7. q.observed <= Due(c, sent, q.from..(q.next - 1))
        BY <2>1 DEF Accounted
      <4>8. r.observed <= Due(c, sent, r.from..(r.next - 1))
        BY <4>3, <4>4, <4>5, <4>6, <4>7
      <4>9. r.skipped # 0
        BY <4>2, <4>3, <4>4
      <4> QED BY <4>2, <4>3, <4>4, <4>8, <4>9 DEF Accounted
    <3>4. CASE CaptureClosed(c)
      <4>1. r = [q EXCEPT !.state = "done"]
        BY <1>0, <3>4 DEF CaptureClosed
      <4>2. /\ r.state = "done" /\ r.from = q.from /\ r.next = q.next
            /\ r.skipped = q.skipped /\ r.observed = q.observed
        BY <2>1, <4>1 DEF CaptureRecord
      <4> HIDE DEF q, r
      <4> QED BY <2>1, <4>2 DEF Accounted
    <3> QED BY <1>2, <3>1, <3>2, <3>3, <3>4 DEF CaptureTask
  <2> QED BY <1>2, <2>2, <2>3 DEF CaptureInv
<1> QED BY <1>1, <1>2, CaptureMoves

LEMMA CaptureInit == Init => CaptureInv
<1> SUFFICES ASSUME Init, NEW c \in Capture PROVE Accounted(c, cap[c], sent)
  BY DEF CaptureInv
<1>1. /\ cap[c].observed = 0 /\ cap[c].skipped = 0 /\ cap[c].from = 1 /\ cap[c].next = 1
      /\ sent = <<>>
  BY DEF Init
<1>2. cap[c].from..(cap[c].next - 1) = {}
  BY <1>1
<1> QED BY <1>1, <1>2, DueNone DEF Accounted

\* A capture ends when the scanner is gone and everything it sent was received.
DoneInv ==
    \A c \in Capture : cap[c].state = "done" => pc = "stopped" /\ cap[c].next = Len(sent) + 1

LEMMA DoneStep == IInv /\ DoneInv /\ [Next]_vars => DoneInv'
<1> SUFFICES ASSUME IInv, DoneInv, [Next]_vars PROVE DoneInv'
  OBVIOUS
<1>0. cap \in [Capture -> CaptureRecord]
  BY DEF IInv, TypeOK
<1> USE DEF nodeVars, scanVars, feedVars, vars
<1>1. CASE Node \/ CleanupAborts \/ ContextDropped \/ UNCHANGED vars
  BY <1>1 DEF Node, NodeStores, NodeReorgs, CleanupAborts, ContextDropped, DoneInv
<1>2. CASE Scanner \/ RequestFails
  <2>1. UNCHANGED cap /\ (pc = "stopped" => FALSE)
    BY <1>2 DEF Scanner, ConsensusInfo, WalkSeen, WalkGenesis, WalkFetch, StorageBlock,
                PopAndIngest, CatchUpDone, Wake, TaskAborted, RequestFails
  <2> QED BY <2>1 DEF DoneInv
<1>3. ASSUME NEW c \in Capture, StartCapture(c) \/ CaptureTask(c)
      PROVE  DoneInv'
  <2>1. UNCHANGED <<pc, sent>>
    BY <1>3 DEF StartCapture, CaptureTask, CaptureRecv, CaptureLagged, CaptureClosed
  <2>2. \A d \in Capture \ {c} : cap'[d] = cap[d]
    BY <1>0, <1>3 DEF StartCapture, CaptureTask, CaptureRecv, CaptureLagged, CaptureClosed
  <2>3. cap'[c].state = "done" => pc = "stopped" /\ cap'[c].next = Len(sent) + 1
    <3>1. CASE StartCapture(c)
      BY <1>0, <3>1 DEF StartCapture, CaptureRecord
    <3>2. CASE CaptureRecv(c) \/ CaptureLagged(c)
      BY <1>0, <3>2 DEF CaptureRecv, CaptureLagged, CaptureRecord
    <3>3. CASE CaptureClosed(c)
      BY <1>0, <3>3 DEF CaptureClosed, Closed, CaptureRecord
    <3> QED BY <1>3, <3>1, <3>2, <3>3 DEF CaptureTask
  <2> QED BY <2>1, <2>2, <2>3 DEF DoneInv
<1> QED BY <1>1, <1>2, <1>3 DEF Next

\* A capture that never lagged has counted exactly the tracked transactions of the
\* blocks sent since it subscribed, one that lagged never more, and none ends with
\* records left: however the receiver, the scanner and the channel's limit
\* interleave.
THEOREM CapturesAreExact == Spec => []CaptureExact
<1>1. Init => CaptureInv
  BY CaptureInit
<1>2. IInv /\ CaptureInv /\ [Next]_vars => CaptureInv'
  BY CaptureStep
<1>3. Init => DoneInv
  BY DEF Init, DoneInv
<1>4. IInv /\ DoneInv /\ [Next]_vars => DoneInv'
  BY DoneStep
<1>5. CaptureInv /\ DoneInv => CaptureExact
  BY DEF CaptureInv, DoneInv, Accounted, CaptureExact, Due, Passed
<1> QED BY <1>1, <1>2, <1>3, <1>4, <1>5, Invariant, PTL DEF Spec
=============================================================================
